---------------------------- MODULE Spec2Model ----------------------------
(***************************************************************************)
(* A model of the atlas-core provenance ledger: the budget guard           *)
(* (atlas/budgets.py), the projection engine (atlas/ledger/projection.py), *)
(* the ledger stores (atlas/ledger/__init__.py, writer.py, reader.py),     *)
(* the event validator (atlas/ledger/validator.py), the pure reducers      *)
(* (atlas/ledger/reducers.py), the snapshot writer and reader              *)
(* (atlas/state/snapshots.py), the confidence engine                       *)
(* (atlas/confidence.py), the filesystem eye (atlas/eyes/filesystem.py),   *)
(* the remote policy (atlas/remote/policy.py) and the remote eyes          *)
(* (atlas/eyes/web.py, atlas/eyes/remote_repo.py).                         *)
(*                                                                         *)
(* Each component has its own group of variables and its own               *)
(* specification (SpecBudget, SpecClock, SpecMeter, SpecQuery, SpecProj,   *)
(* SpecLedger, SpecSnap, SpecValid, SpecReplay, SpecView, SpecConf,        *)
(* SpecEvolve, SpecEye, SpecRead, SpecLock, SpecTwin, SpecEmit, SpecCache, *)
(* SpecRemote); a specification keeps the variables of the other           *)
(* components at their initial values.                                     *)
(***************************************************************************)
EXTENDS Integers, Sequences, FiniteSets, TLC

VARIABLES
    \* ---- Budget / BudgetGuard (atlas/budgets.py) ----
    limits,          \* Budget.limits: kind -> [limit, consumed]
    started_at,      \* Budget.started_at (NoTime = None)
    ended_at,        \* Budget.ended_at   (NoTime = None)
    now,             \* the wall clock read by datetime.utcnow(), in seconds
    files_processed, \* BudgetGuard._files_processed
    bytes_processed, \* BudgetGuard._bytes_processed
    requested,       \* per kind, the sum of the amounts passed to Budget.consume
    b_call,          \* the last Budget/BudgetGuard call: its arguments and result
    timing,          \* which of Budget.start() / Budget.stop() was called last
    \* ---- ProjectionEngine over an InMemoryLedger (atlas/ledger) ----
    mem_events,      \* InMemoryLedger._events
    engine,          \* a ProjectionEngine that is applied to and rebuilt
    live,            \* a freshly constructed ProjectionEngine, fed by apply only
    live_pos,        \* how many events of the ledger `live` has applied
    rebuilt_n,       \* events replayed by the last rebuild_from of `engine`
                     \* (NotRebuilt once apply has changed it since)
    \* ---- the ledger stores (atlas/ledger/__init__.py, writer.py, reader.py) ----
    impl,            \* the store under test: "InMemoryLedger", "Ledger", "EventWriter"
    by_artifact,     \* InMemoryLedger._by_artifact
    sql_events,      \* Ledger: the committed rows of table events
    sql_refs,        \* Ledger: the committed rows of table event_artifact_refs
    sql_lock,        \* Ledger: the thread whose IMMEDIATE transaction is open
    t_pc,            \* per thread, its position inside append
    t_ev,            \* per thread, the event it is appending
    t_seq,           \* per thread, the sequence number its append will return
    calls,           \* append calls begun so far
    overlapped,      \* some append began while another was in progress
    log,             \* the events in the order they entered the store
    committed,       \* per append that entered the store, in that order, the
                     \* thread and the sequence number its call returns
    segments,        \* ledger_dir: UTC day -> content of <day>.jsonl
    synced,          \* UTC day -> length of the content that is on disk
    utc_day,         \* the day datetime.utcnow() reports
    strict,          \* EventWriter.strict
    w_pc,            \* the position of the writer inside append
    w_event,         \* the event being appended
    w_path,          \* the day of the segment the append opened
    w_buf,           \* text written to the file object and not yet flushed
    w_result,        \* how the last append call ended
    returned,        \* the events whose append call returned, in order
    crashes,         \* process crashes so far
    \* ---- write_snapshot (atlas/state/snapshots.py) ----
    snap_file,       \* state_dir/artifacts.snapshot.jsonl (None: no such file)
    snap_disk,       \* the file that name has on disk: the last rename
                     \* the file system has written
    tmp_file,        \* the temp file of the last write_snapshot call
    s_pc,            \* the position inside write_snapshot
    s_artifacts,     \* its argument
    s_buf,           \* text written to the file object and not yet flushed
    s_result,        \* how the last write_snapshot call ended
    s_calls,         \* write_snapshot calls so far
    s_crashes,       \* crashes during snapshot writing so far
    \* ---- validate_strict (atlas/ledger/validator.py) ----
    v_event,         \* the event passed to validate_strict
    v_result,        \* the ValidationResult it returned (None before the call)
    \* ---- a history replayed (atlas/ledger/reducers.py, projection.py) ----
    r_events,        \* the events passed to aggregate_state
    r_state,         \* the state it returned (None before the call)
    p_events,        \* the events applied to a new ProjectionEngine
    p_state,         \* that engine after the last apply (None before)
    \* ---- get_state() and its caller (atlas/ledger/projection.py) ----
    g_engine,        \* a ProjectionEngine whose projectors hand out their state
    g_applied,       \* how many events it has applied
    g_view,          \* the collection the last get_state() returned, as the caller has it now
    g_returned,      \* what that collection and its objects held when it was returned
    \* ---- ConfidenceEngine (atlas/confidence.py) ----
    c_writer,        \* whether the ConfidenceEngine was given a writer
    c_score,         \* the confidence the caller holds for the artifact
    c_log,           \* the events the engine appended to its writer
    c_ids,           \* the event ids _make_event_id has handed out
    c_last,          \* the last ConfidenceEngine call: its arguments and result
    c_steps,         \* calls made
    \* ---- FilesystemEye (atlas/eyes/filesystem.py) ----
    y_walk,          \* the entries root_path.rglob("*") yields, in order
    y_budget,        \* the budget object passed to observe
    y_pos,           \* the entry the loop of observe is at
    y_files_seen,    \* files_seen
    y_bytes_accounted,\* bytes_accounted
    y_stopped_reason,\* stopped_reason
    y_events,        \* the events the eye appended to its writer
    y_pc,            \* where observe is: "walking" or "returned"
    \* ---- read_snapshot (atlas/state/snapshots.py) ----
    d_file,          \* the snapshot file read_snapshot is given (None: no such file), as its lines
    d_result,        \* what read_snapshot did: the mapping it returned or the exception it raised
    \* ---- threads sharing one EventWriter (atlas/ledger/writer.py) ----
    k_lock,          \* EventWriter._lock: the thread that holds it, or None
    k_pc,            \* per thread, where it is in append
    k_line,          \* per thread, the line of its call: json.dumps of its event
    k_buf,           \* per thread, the unflushed part of its open file object
    k_path,          \* per thread, the day of the segment it opened
    k_files,         \* the segments on disk: per UTC day, the pieces written
    k_day,           \* the UTC day of datetime.utcnow()
    k_calls,         \* the append calls made so far
    k_returned,      \* the events whose append has returned
    \* ---- InMemoryLedger and Ledger given the same calls (atlas/ledger/__init__.py) ----
    n_mem,           \* an InMemoryLedger: _events, _by_id, _by_artifact
    n_sql,           \* a Ledger on an empty database: the rows of events and of event_artifact_refs
    n_call,          \* the last call made on both stores, and what each returned or raised
    \* ---- the emitters appending through an EventWriter (atlas/confidence.py, atlas/eyes/filesystem.py) ----
    m_strict,        \* EventWriter.strict of the writer the emitters append to
    m_event,         \* the event the last emitter call built (None before the first)
    m_result,        \* what writer.append(event) did: "ok" or "ValueError"
    \* ---- project_artifacts, write_snapshot, read_snapshot in a row (atlas/ledger/reducers.py, atlas/state/snapshots.py) ----
    a_events,        \* the events handed to project_artifacts
    a_state,         \* the artifact state project_artifacts returned (None before the call)
    a_file,          \* the snapshot file: None while there is none, else its text
    a_count,         \* what write_snapshot returned
    a_read,          \* what read_snapshot returned or raised
    \* ---- RemotePolicy, WebEye and RemoteRepoEye ----
    r_policy,        \* the RemotePolicy the calls share
    r_strict,        \* whether the eyes write through a strict EventWriter
    r_log,           \* event_type of every event appended, in order
    r_fetches,       \* how often urlopen was called
    r_call           \* what the last call of an eye did

budgetVars == <<limits, started_at, ended_at, now, files_processed,
                bytes_processed, requested, b_call, timing>>

projVars == <<mem_events, engine, live, live_pos, rebuilt_n>>

engineVars == <<engine, live, live_pos, rebuilt_n>>

threadVars == <<by_artifact, sql_events, sql_refs, sql_lock, t_pc, t_ev, t_seq,
                calls, overlapped, committed>>

writerVars == <<segments, synced, utc_day, w_pc, w_event, w_path, w_buf,
                w_result, returned, crashes>>

ledgerVars == <<impl, strict, log, threadVars, writerVars>>

snapVars == <<snap_file, snap_disk, tmp_file, s_pc, s_artifacts, s_buf,
              s_result, s_calls, s_crashes>>

validVars == <<v_event, v_result>>

replayVars == <<r_events, r_state, p_events, p_state>>

viewVars == <<g_engine, g_applied, g_view, g_returned>>

confVars == <<c_writer, c_score, c_log, c_ids, c_last, c_steps>>

eyeVars == <<y_walk, y_budget, y_pos, y_files_seen, y_bytes_accounted, y_stopped_reason, y_events, y_pc>>

readVars == <<d_file, d_result>>

lockVars == <<k_lock, k_pc, k_line, k_buf, k_path, k_files, k_day, k_calls, k_returned>>

twinVars == <<n_mem, n_sql, n_call>>

emitVars == <<m_strict, m_event, m_result>>

cacheVars == <<a_events, a_state, a_file, a_count, a_read>>

remoteVars == <<r_policy, r_strict, r_log, r_fetches, r_call>>

vars == <<budgetVars, projVars, ledgerVars, snapVars, validVars, replayVars, viewVars, confVars, eyeVars, readVars, lockVars, twinVars, emitVars, cacheVars, remoteVars>>

\* the variables of the other components, which a component's actions keep
notBudgetVars == <<projVars, ledgerVars, snapVars, validVars, replayVars, viewVars, confVars, eyeVars, readVars, lockVars, twinVars, emitVars, cacheVars, remoteVars>>
notProjVars == <<budgetVars, ledgerVars, snapVars, validVars, replayVars, viewVars, confVars, eyeVars, readVars, lockVars, twinVars, emitVars, cacheVars, remoteVars>>
notLedgerVars == <<budgetVars, engineVars, snapVars, validVars, replayVars, viewVars, confVars, eyeVars, readVars, lockVars, twinVars, emitVars, cacheVars, remoteVars>>
notSnapVars == <<budgetVars, projVars, ledgerVars, validVars, replayVars, viewVars, confVars, eyeVars, readVars, lockVars, twinVars, emitVars, cacheVars, remoteVars>>
notValidVars == <<budgetVars, projVars, ledgerVars, snapVars, replayVars, viewVars, confVars, eyeVars, readVars, lockVars, twinVars, emitVars, cacheVars, remoteVars>>
notReplayVars == <<budgetVars, projVars, ledgerVars, snapVars, validVars, viewVars, confVars, eyeVars, readVars, lockVars, twinVars, emitVars, cacheVars, remoteVars>>
notViewVars == <<budgetVars, projVars, ledgerVars, snapVars, validVars, replayVars, confVars, eyeVars, readVars, lockVars, twinVars, emitVars, cacheVars, remoteVars>>
notConfVars == <<budgetVars, projVars, ledgerVars, snapVars, validVars, replayVars, viewVars, eyeVars, readVars, lockVars, twinVars, emitVars, cacheVars, remoteVars>>
notEyeVars == <<budgetVars, projVars, ledgerVars, snapVars, validVars, replayVars, viewVars, confVars, readVars, lockVars, twinVars, emitVars, cacheVars, remoteVars>>
notReadVars == <<budgetVars, projVars, ledgerVars, snapVars, validVars, replayVars, viewVars, confVars, eyeVars, lockVars, twinVars, emitVars, cacheVars, remoteVars>>
notLockVars == <<budgetVars, projVars, ledgerVars, snapVars, validVars, replayVars, viewVars, confVars, eyeVars, readVars, twinVars, emitVars, cacheVars, remoteVars>>
notTwinVars == <<budgetVars, projVars, ledgerVars, snapVars, validVars, replayVars, viewVars, confVars, eyeVars, readVars, lockVars, emitVars, cacheVars, remoteVars>>
notEmitVars == <<budgetVars, projVars, ledgerVars, snapVars, validVars, replayVars, viewVars, confVars, eyeVars, readVars, lockVars, twinVars, cacheVars, remoteVars>>
notCacheVars == <<budgetVars, projVars, ledgerVars, snapVars, validVars, replayVars, viewVars, confVars, eyeVars, readVars, lockVars, twinVars, emitVars, remoteVars>>
notRemoteVars == <<budgetVars, projVars, ledgerVars, snapVars, validVars, replayVars, viewVars, confVars, eyeVars, readVars, lockVars, twinVars, emitVars, cacheVars>>

(***************************************************************************)
(* Shared helpers                                                          *)
(***************************************************************************)
Max(a, b) == IF a >= b THEN a ELSE b

IsPrefix(s, t) == Len(s) <= Len(t) /\ SubSeq(t, 1, Len(s)) = s

\* Python's None, and a value that is not None
None == <<>>
Some(v) == <<v>>

\* dict.get(key) and dict.get(key, default)
Get(d, k) == IF k \in DOMAIN d THEN d[k] ELSE None
GetDefault(d, k, default) == IF k \in DOMAIN d THEN d[k] ELSE Some(default)

\* Python truthiness of an optional string and of an optional list
TruthyStr(v) == v # None /\ v[1] # ""
TruthyList(v) == v # None /\ v[1] # <<>>

(***************************************************************************)
(* Budget (atlas/budgets.py)                                               *)
(***************************************************************************)
\* Bounds of the budget model
MaxLimit  == 2     \* largest bytes / files limit drawn
MaxAmount == 2     \* largest amount of one consume call
MaxTotal  == 4     \* consume is not called once a total would pass this

NoTime == 0 - 1    \* Optional[datetime] = None

BudgetTypes == {"TIME", "BYTES_READ", "FILES_SCANNED", "DEPTH"}
ConsumedTypes == {"BYTES_READ", "FILES_SCANNED"}

\* BudgetLimit(budget_type, limit) with consumed = 0.0
BudgetLimit(l) == [limit |-> l, consumed |-> 0]

\* The budgets Budget.create can build from the limits drawn: every kind is
\* either absent from the dict or present with its limit.
BudgetConfigs ==
    { f \in UNION { [K -> 0..MaxLimit] : K \in SUBSET BudgetTypes } :
        /\ ("TIME" \in DOMAIN f => f["TIME"] >= 1)
        /\ ("DEPTH" \in DOMAIN f => f["DEPTH"] = 1) }

BudgetCreate(cfg) == [k \in DOMAIN cfg |-> BudgetLimit(cfg[k])]

\* BudgetLimit.remaining
LimitRemaining_NoClamp(bl) == bl.limit - bl.consumed
LimitRemaining(bl) == Max(0, bl.limit - bl.consumed)

\* BudgetLimit.exhausted
LimitExhausted(bl) == bl.consumed >= bl.limit

\* BudgetLimit.consume: the record after the call, and the value returned
LimitConsume_Clamped(bl, amount) ==
    [bl EXCEPT !.consumed =
        IF bl.consumed + amount <= bl.limit THEN bl.consumed + amount
        ELSE bl.consumed]
LimitConsume(bl, amount) == [bl EXCEPT !.consumed = bl.consumed + amount]
LimitConsumeResult(bl, amount) == LimitConsume(bl, amount).consumed <= bl.limit

\* Budget.elapsed_seconds
ElapsedSeconds ==
    IF started_at = NoTime THEN 0
    ELSE (IF ended_at # NoTime THEN ended_at ELSE now) - started_at

\* Budget.any_exhausted
AnyExhausted ==
    \/ ("TIME" \in DOMAIN limits /\ ElapsedSeconds >= limits["TIME"].limit)
    \/ \E k \in DOMAIN limits : LimitExhausted(limits[k])

\* Budget.remaining(budget_type) for a kind other than TIME that has a limit
Remaining(k) == LimitRemaining(limits[k])

\* Budget.consume(budget_type, amount): the limits after the call
BudgetConsume(lim, k, amount) ==
    IF k \notin DOMAIN lim THEN lim
    ELSE [lim EXCEPT ![k] = LimitConsume(lim[k], amount)]

\* Budget.consume(budget_type, amount): the value returned
BudgetConsumeResult(lim, k, amount) ==
    IF k \notin DOMAIN lim THEN TRUE
    ELSE LimitConsumeResult(lim[k], amount)

ConsumedOf(lim, k) == IF k \in DOMAIN lim THEN lim[k].consumed ELSE 0

NoCall == [op |-> "none", kind |-> "none", amount |-> 0, ret |-> TRUE]

BudgetStart ==
    /\ \E cfg \in BudgetConfigs : limits = BudgetCreate(cfg)
    /\ started_at = NoTime
    /\ ended_at = NoTime
    /\ now = 0
    /\ files_processed = 0
    /\ bytes_processed = 0
    /\ requested = [k \in ConsumedTypes |-> 0]
    /\ b_call = NoCall
    /\ timing = "new"

\* Budget.consume(kind, amount), called directly
Consume(k, amount) ==
    /\ requested[k] + amount <= MaxTotal
    /\ limits' = BudgetConsume(limits, k, amount)
    /\ requested' = [requested EXCEPT ![k] = @ + amount]
    /\ b_call' = [op |-> "consume", kind |-> k, amount |-> amount,
                  ret |-> BudgetConsumeResult(limits, k, amount)]
    /\ UNCHANGED <<started_at, ended_at, now, timing, files_processed,
                   bytes_processed>>
    /\ UNCHANGED notBudgetVars

\* BudgetGuard.consume_file(size_bytes)
ConsumeFile(size) ==
    /\ requested["FILES_SCANNED"] + 1 <= MaxTotal
    /\ requested["BYTES_READ"] + size <= MaxTotal
    /\ files_processed' = files_processed + 1
    /\ bytes_processed' = bytes_processed + size
    /\ requested' = [requested EXCEPT !["FILES_SCANNED"] = @ + 1,
                                      !["BYTES_READ"] = @ + size]
    /\ LET within_files == BudgetConsumeResult(limits, "FILES_SCANNED", 1)
           after_files  == BudgetConsume(limits, "FILES_SCANNED", 1)
           within_bytes == BudgetConsumeResult(after_files, "BYTES_READ", size)
       IN /\ limits' = BudgetConsume(after_files, "BYTES_READ", size)
          /\ b_call' = [op |-> "consume_file", kind |-> "none", amount |-> size,
                        ret |-> (within_files /\ within_bytes)]
    /\ UNCHANGED <<started_at, ended_at, now, timing>>
    /\ UNCHANGED notBudgetVars

NextBudget ==
    \/ \E k \in ConsumedTypes, a \in 0..MaxAmount : Consume(k, a)
    \/ \E s \in 0..MaxAmount : ConsumeFile(s)

BudgetIdle ==
    /\ limits = <<>>
    /\ started_at = NoTime
    /\ ended_at = NoTime
    /\ now = 0
    /\ files_processed = 0
    /\ bytes_processed = 0
    /\ requested = <<>>
    /\ b_call = NoCall
    /\ timing = "new"

(***************************************************************************)
(* Budget time accounting and the look-ahead queries (atlas/budgets.py)    *)
(*                                                                         *)
(* A Budget whose start() and stop() are called in any order while the     *)
(* wall clock advances, with consume, can_consume and at_depth calls in    *)
(* between.                                                                *)
(***************************************************************************)
MaxClock == 3      \* the clock stops advancing at this time
MaxDepth == 2      \* largest depth passed to at_depth

ClockTypes == {"TIME", "BYTES_READ", "DEPTH"}
ClockConsumed == {"BYTES_READ"}
QueryConsumed == {"BYTES_READ", "DEPTH"}

\* Budget.create with a time limit, a bytes limit and a depth limit, each
\* given or left out
ClockConfigs ==
    { f \in UNION { [K -> 1..MaxLimit] : K \in SUBSET ClockTypes } :
        /\ ("BYTES_READ" \in DOMAIN f => f["BYTES_READ"] = 1)
        /\ ("DEPTH" \in DOMAIN f => f["DEPTH"] = 1) }

\* BudgetLimit.can_consume
LimitCanConsume_Strict(bl, amount) == bl.consumed + amount < bl.limit
LimitCanConsume(bl, amount) == bl.consumed + amount <= bl.limit

\* Budget.can_consume(budget_type, amount)
BudgetCanConsume(lim, k, amount) ==
    IF k \notin DOMAIN lim THEN TRUE
    ELSE LimitCanConsume(lim[k], amount)

\* BudgetGuard.at_depth(depth)
GuardAtDepth_Consumed(lim, depth) ==
    IF "DEPTH" \notin DOMAIN lim THEN TRUE
    ELSE lim["DEPTH"].consumed + depth <= lim["DEPTH"].limit
GuardAtDepth(lim, depth) ==
    IF "DEPTH" \notin DOMAIN lim THEN TRUE
    ELSE depth <= lim["DEPTH"].limit

\* the time test of Budget.any_exhausted and Budget.exhausted_budgets
TimeExhausted ==
    "TIME" \in DOMAIN limits /\ ElapsedSeconds >= limits["TIME"].limit

\* Budget.remaining(BudgetType.TIME)
RemainingTime ==
    IF "TIME" \in DOMAIN limits
    THEN Some(limits["TIME"].limit - ElapsedSeconds)
    ELSE None

\* Budget.summary(): per kind, limit, consumed and remaining (utilization is
\* the quotient of consumed and limit)
Summary ==
    [k \in DOMAIN limits |->
        LET consumed == IF k = "TIME" THEN ElapsedSeconds
                        ELSE limits[k].consumed
        IN [limit |-> limits[k].limit,
            consumed |-> consumed,
            remaining |-> Max(0, limits[k].limit - consumed)]]

ClockStart ==
    /\ \E cfg \in ClockConfigs : limits = BudgetCreate(cfg)
    /\ started_at = NoTime
    /\ ended_at = NoTime
    /\ now = 0
    /\ files_processed = 0
    /\ bytes_processed = 0
    /\ requested = [k \in ClockConsumed |-> 0]
    /\ b_call = NoCall
    /\ timing = "new"

QueryStart ==
    /\ \E cfg \in ClockConfigs : limits = BudgetCreate(cfg)
    /\ started_at = NoTime
    /\ ended_at = NoTime
    /\ now = 0
    /\ files_processed = 0
    /\ bytes_processed = 0
    /\ requested = [k \in QueryConsumed |-> 0]
    /\ b_call = NoCall
    /\ timing = "new"

\* Budget.start()
Start ==
    /\ started_at' = now
    /\ timing' = "started"
    /\ UNCHANGED <<limits, ended_at, now, files_processed, bytes_processed,
                   requested, b_call>>
    /\ UNCHANGED notBudgetVars

\* Budget.stop()
Stop ==
    /\ ended_at' = now
    /\ timing' = "stopped"
    /\ UNCHANGED <<limits, started_at, now, files_processed, bytes_processed,
                   requested, b_call>>
    /\ UNCHANGED notBudgetVars

\* a second passes on the clock datetime.utcnow() reads
ClockTick ==
    /\ now < MaxClock
    /\ now' = now + 1
    /\ UNCHANGED <<limits, started_at, ended_at, files_processed,
                   bytes_processed, requested, b_call, timing>>
    /\ UNCHANGED notBudgetVars

\* Budget.can_consume(kind, amount)
CanConsume(k, amount) ==
    /\ b_call' = [op |-> "can_consume", kind |-> k, amount |-> amount,
                  ret |-> BudgetCanConsume(limits, k, amount)]
    /\ UNCHANGED <<limits, started_at, ended_at, now, files_processed,
                   bytes_processed, requested, timing>>
    /\ UNCHANGED notBudgetVars

\* BudgetGuard.at_depth(depth)
AtDepth(depth) ==
    /\ b_call' = [op |-> "at_depth", kind |-> "DEPTH", amount |-> depth,
                  ret |-> GuardAtDepth(limits, depth)]
    /\ UNCHANGED <<limits, started_at, ended_at, now, files_processed,
                   bytes_processed, requested, timing>>
    /\ UNCHANGED notBudgetVars

NextClock ==
    \/ Start
    \/ Stop
    \/ ClockTick
    \/ \E k \in ClockConsumed, a \in 0..MaxAmount : Consume(k, a)

NextQuery ==
    \/ Start
    \/ Stop
    \/ \E k \in QueryConsumed, a \in 0..MaxAmount : Consume(k, a)
    \/ \E k \in QueryConsumed, a \in 0..MaxAmount : CanConsume(k, a)
    \/ \E d \in 0..MaxDepth : AtDepth(d)

(***************************************************************************)
(* Budget exhaustion (atlas/budgets.py)                                    *)
(*                                                                         *)
(* A Budget with a time limit, a bytes limit and a depth limit (0          *)
(* included), each given or left out, under start(), stop(), clock         *)
(* advance, consume on TIME and BYTES_READ, at_depth and can_continue.     *)
(***************************************************************************)
MeterTypes == {"TIME", "BYTES_READ", "DEPTH"}
MeterConsumed == {"TIME", "BYTES_READ"}

MeterConfigs ==
    { f \in UNION { [K -> 0..MaxLimit] : K \in SUBSET MeterTypes } :
        /\ ("TIME" \in DOMAIN f => f["TIME"] >= 1)
        /\ ("BYTES_READ" \in DOMAIN f => f["BYTES_READ"] = 1) }

\* the order of the keys of Budget.limits, as Budget.create inserts them
KindOrder == <<"TIME", "BYTES_READ", "FILES_SCANNED", "DEPTH">>

\* Budget.exhausted_budgets
ExhaustedBudgets ==
    (IF TimeExhausted THEN <<"TIME">> ELSE <<>>)
    \o SelectSeq(KindOrder,
                 LAMBDA k : /\ k \in DOMAIN limits
                            /\ k # "TIME"
                            /\ LimitExhausted(limits[k]))

\* BudgetGuard.can_continue()
GuardCanContinue == ~AnyExhausted

MeterStart ==
    /\ \E cfg \in MeterConfigs : limits = BudgetCreate(cfg)
    /\ started_at = NoTime
    /\ ended_at = NoTime
    /\ now = 0
    /\ files_processed = 0
    /\ bytes_processed = 0
    /\ requested = [k \in MeterConsumed |-> 0]
    /\ b_call = NoCall
    /\ timing = "new"

\* BudgetGuard.can_continue()
CanContinue ==
    /\ b_call' = [op |-> "can_continue", kind |-> "none", amount |-> 0,
                  ret |-> GuardCanContinue]
    /\ UNCHANGED <<limits, started_at, ended_at, now, files_processed,
                   bytes_processed, requested, timing>>
    /\ UNCHANGED notBudgetVars

NextMeter ==
    \/ Start
    \/ Stop
    \/ ClockTick
    \/ \E k \in MeterConsumed, a \in 0..MaxAmount : Consume(k, a)
    \/ \E d \in 0..MaxDepth : AtDepth(d)
    \/ CanContinue

(***************************************************************************)
(* Projection engine (atlas/ledger/projection.py) over an InMemoryLedger   *)
(***************************************************************************)
MaxLedger == 2     \* events appended to the ledger

NotRebuilt == 0 - 1

\* Event(metadata, payload, artifact_refs): payload values are optional
\* (a key may be absent, or present with None)
Ev(id, type, ts, refs, payload) ==
    [event_id |-> id, event_type |-> type, timestamp |-> ts,
     artifact_refs |-> refs, payload |-> payload]

NoPayload == <<>>

\* The events drawn: every event type a projector handles, one it does not,
\* repeated keys with new values, timestamps that run against append order.
EventPool ==
    { Ev("e01", "ARTIFACT_OBSERVED", 2, <<"a1">>,
         [source_type |-> Some("file"), source_locator |-> Some("/x"),
          access_scope |-> Some("local")]),
      Ev("e02", "ARTIFACT_OBSERVED", 1, <<"a1", "a2">>,
         [source_locator |-> Some("/y")]),
      Ev("e03", "ARTIFACT_CONTENT_EXTRACTED", 1, <<"a1">>,
         [size_bytes |-> Some(10), content_hash |-> Some("h1"),
          errors |-> Some(<<"err1", "err2">>)]),
      Ev("e04", "ARTIFACT_CONTENT_EXTRACTED", 2, <<"a1">>,
         [content_hash |-> Some("h2"), errors |-> Some(<<>>)]),
      Ev("e05", "ARTIFACT_CHANGED", 1, <<"a1">>, [current_hash |-> Some("h3")]),
      Ev("e06", "FINGERPRINT_COMPUTED", 2, <<"a1">>,
         [content_hash |-> Some("h4"), structure_hash |-> Some("s1"),
          size_bytes |-> Some(20), entropy_score |-> Some(5)]),
      Ev("e07", "TAG_PROPOSED", 1, <<"a1">>,
         [tag_group |-> Some("lang"), tag_value |-> Some("py"),
          confidence_score |-> Some(7)]),
      Ev("e08", "TAG_PROPOSED", 2, <<"a1">>,
         [tag_group |-> Some("lang"), tag_value |-> Some("js")]),
      Ev("e09", "ROLE_PROPOSED", 1, <<"a1">>,
         [role |-> Some("config"), confidence_score |-> Some(5)]),
      Ev("e10", "CONFIDENCE_UPDATED", 2, <<"a1">>,
         [new_score |-> Some(8), reasoning |-> Some("r")]),
      Ev("e11", "ERROR_RECORDED", 1, <<"a2">>, NoPayload),
      Ev("e12", "RELATION_PROPOSED", 1, <<"a1", "a2">>,
         [relation_type |-> Some("imports"), confidence_score |-> Some(3)]),
      Ev("e13", "RELATION_PROPOSED", 2, <<"a1", "a2">>,
         [relation_type |-> Some("imports"), confidence_score |-> Some(9)]),
      Ev("e14", "RELATION_PROPOSED", 1, <<"a2", "a1">>, NoPayload),
      Ev("e15", "RELATION_PROPOSED", 1, <<"a1">>,
         [relation_type |-> Some("imports")]),
      Ev("e16", "CONFLICT_DETECTED", 2, <<"a1", "a2">>,
         [conflict_type |-> Some("hash"), description |-> Some("d")]),
      Ev("e17", "CONFLICT_DETECTED", 1, <<>>, NoPayload),
      Ev("e18", "SESSION_STARTED", 1, <<>>, NoPayload) }

\* The events applied to `engine` outside a rebuild
StrayPool == { e \in EventPool : e.event_id \in {"e02", "e08", "e13", "e16"} }

\* ArtifactSnapshot(artifact_id, first_seen, last_seen) with its defaults
ArtifactSnapshot(aid, ts) ==
    [artifact_id |-> aid, first_seen |-> ts, last_seen |-> ts,
     source_type |-> None, source_locator |-> None, access_scope |-> None,
     content_hash |-> None, structure_hash |-> None, size_bytes |-> None,
     entropy_score |-> None, tags |-> <<>>, roles |-> <<>>,
     confidence_score |-> None, confidence_reasoning |-> None,
     observation_count |-> 0, change_count |-> 0, error_count |-> 0]

\* dict[key] = value
Put(d, k, v) == [x \in DOMAIN d \cup {k} |-> IF x = k THEN v ELSE d[x]]

\* ArtifactProjector._ensure_artifact
EnsureArtifact(snaps, aid, ts) ==
    IF aid \in DOMAIN snaps THEN snaps ELSE Put(snaps, aid, ArtifactSnapshot(aid, ts))

\* the event types for which ArtifactProjector has a _handle_<name> method
ArtifactHandled ==
    {"ARTIFACT_OBSERVED", "ARTIFACT_CONTENT_EXTRACTED", "ARTIFACT_CHANGED",
     "FINGERPRINT_COMPUTED", "TAG_PROPOSED", "ROLE_PROPOSED",
     "CONFIDENCE_UPDATED", "ERROR_RECORDED"}

\* the body of a handler's loop for one artifact_id of event.artifact_refs
HandleOne(snaps, aid, e) ==
    LET s0 == EnsureArtifact(snaps, aid, e.timestamp)
        sn == s0[aid]
        p  == e.payload
        t  == e.event_type
        upd ==
          CASE t = "ARTIFACT_OBSERVED" ->
                 [sn EXCEPT !.last_seen = e.timestamp,
                            !.observation_count = @ + 1,
                            !.source_type = Get(p, "source_type"),
                            !.source_locator = Get(p, "source_locator"),
                            !.access_scope = Get(p, "access_scope")]
            [] t = "ARTIFACT_CONTENT_EXTRACTED" ->
                 [sn EXCEPT !.last_seen = e.timestamp,
                            !.size_bytes = Get(p, "size_bytes"),
                            !.content_hash = Get(p, "content_hash"),
                            !.error_count =
                                IF TruthyList(Get(p, "errors"))
                                THEN @ + Len(p["errors"][1]) ELSE @]
            [] t = "ARTIFACT_CHANGED" ->
                 [sn EXCEPT !.last_seen = e.timestamp,
                            !.change_count = @ + 1,
                            !.content_hash = Get(p, "current_hash")]
            [] t = "FINGERPRINT_COMPUTED" ->
                 [sn EXCEPT !.content_hash = Get(p, "content_hash"),
                            !.structure_hash = Get(p, "structure_hash"),
                            !.size_bytes = Get(p, "size_bytes"),
                            !.entropy_score = Get(p, "entropy_score")]
            [] t = "TAG_PROPOSED" ->
                 IF TruthyStr(Get(p, "tag_group"))
                 THEN [sn EXCEPT !.tags =
                          Put(@, p["tag_group"][1],
                              <<Get(p, "tag_value"),
                                GetDefault(p, "confidence_score", 0)>>)]
                 ELSE sn
            [] t = "ROLE_PROPOSED" ->
                 IF TruthyStr(Get(p, "role"))
                 THEN [sn EXCEPT !.roles =
                          Put(@, p["role"][1], GetDefault(p, "confidence_score", 0))]
                 ELSE sn
            [] t = "CONFIDENCE_UPDATED" ->
                 [sn EXCEPT !.confidence_score = Get(p, "new_score"),
                            !.confidence_reasoning = Get(p, "reasoning")]
            [] t = "ERROR_RECORDED" ->
                 [sn EXCEPT !.error_count = @ + 1]
    IN [s0 EXCEPT ![aid] = upd]

\* for artifact_id in event.artifact_refs: ..., from position i on
RECURSIVE HandleRefs(_, _, _)
HandleRefs(snaps, e, i) ==
    IF i > Len(e.artifact_refs) THEN snaps
    ELSE HandleRefs(HandleOne(snaps, e.artifact_refs[i], e), e, i + 1)

\* ArtifactProjector.apply
ArtifactApply(snaps, e) ==
    IF e.event_type \in ArtifactHandled THEN HandleRefs(snaps, e, 1) ELSE snaps

\* ArtifactProjector.reset
ArtifactReset_Keep(snaps) == snaps
ArtifactReset(snaps) == <<>>

\* RelationSnapshot
RelationSnapshot(src, tgt, type, conf, ts) ==
    [source_id |-> src, target_id |-> tgt, relation_type |-> type,
     confidence_score |-> conf, last_proposed |-> ts]

\* RelationProjector.apply on rp = [relations, index]
RelationApply_Append(rp, e) ==
    IF e.event_type # "RELATION_PROPOSED" THEN rp
    ELSE IF Len(e.artifact_refs) < 2 THEN rp
    ELSE LET source_id     == e.artifact_refs[1]
             target_id     == e.artifact_refs[2]
             relation_type == GetDefault(e.payload, "relation_type", "unknown")
             confidence    == GetDefault(e.payload, "confidence_score", 0)
             key  == <<source_id, target_id, relation_type>>
             snap == RelationSnapshot(source_id, target_id, relation_type,
                                      confidence, e.timestamp)
         IN [relations |-> Append(rp.relations, snap),
             index |-> Put(rp.index, key, Len(rp.relations))]
RelationApply(rp, e) ==
    IF e.event_type # "RELATION_PROPOSED" THEN rp
    ELSE IF Len(e.artifact_refs) < 2 THEN rp
    ELSE LET source_id     == e.artifact_refs[1]
             target_id     == e.artifact_refs[2]
             relation_type == GetDefault(e.payload, "relation_type", "unknown")
             confidence    == GetDefault(e.payload, "confidence_score", 0)
             key  == <<source_id, target_id, relation_type>>
             snap == RelationSnapshot(source_id, target_id, relation_type,
                                      confidence, e.timestamp)
         IN IF key \in DOMAIN rp.index
            THEN [rp EXCEPT !.relations[rp.index[key] + 1] = snap]
            ELSE [relations |-> Append(rp.relations, snap),
                  index |-> Put(rp.index, key, Len(rp.relations))]

\* RelationProjector.reset
RelationReset_KeepIndex(rp) == [relations |-> <<>>, index |-> rp.index]
RelationReset(rp) == [relations |-> <<>>, index |-> <<>>]

\* ConflictRecord
ConflictRecord(e) ==
    [conflict_type |-> GetDefault(e.payload, "conflict_type", "unknown"),
     description |-> GetDefault(e.payload, "description", ""),
     artifact_ids |-> e.artifact_refs,
     detected_at |-> e.timestamp,
     event_id |-> e.event_id]

\* ConflictProjector.apply
ConflictApply(conflicts, e) ==
    IF e.event_type # "CONFLICT_DETECTED" THEN conflicts
    ELSE Append(conflicts, ConflictRecord(e))

\* ConflictProjector.reset
ConflictReset(conflicts) == <<>>

\* ProjectionEngine.__init__
NewEngine ==
    [artifacts |-> <<>>,
     relations |-> [relations |-> <<>>, index |-> <<>>],
     conflicts |-> <<>>,
     last_sequence |-> 0]

\* ProjectionEngine.apply
EngineApply(eng, e) ==
    [eng EXCEPT !.artifacts = ArtifactApply(@, e),
                !.relations = RelationApply(@, e),
                !.conflicts = ConflictApply(@, e)]

\* ProjectionEngine.reset
EngineReset(eng) ==
    [artifacts |-> ArtifactReset(eng.artifacts),
     relations |-> RelationReset(eng.relations),
     conflicts |-> ConflictReset(eng.conflicts),
     last_sequence |-> 0]

\* InMemoryLedger.iter_events() with no filter
MemIterAll(events) == events

\* for event in ledger.iter_events(): self.apply(event), from position i on
RECURSIVE ApplyFrom(_, _, _)
ApplyFrom(eng, events, i) ==
    IF i > Len(events) THEN eng
    ELSE ApplyFrom(EngineApply(eng, events[i]), events, i + 1)

\* ProjectionEngine.rebuild_from(ledger)
RebuildFrom(eng, events) == ApplyFrom(EngineReset(eng), MemIterAll(events), 1)

ProjIdle ==
    /\ mem_events = <<>>
    /\ engine = NewEngine
    /\ live = NewEngine
    /\ live_pos = 0
    /\ rebuilt_n = NotRebuilt


\* self._by_artifact[artifact_id].append(event) for each artifact_id of
\* event.artifact_refs, from reference i on
RECURSIVE MemIndex(_, _, _)
MemIndex(idx, e, i) ==
    IF i > Len(e.artifact_refs) THEN idx
    ELSE LET aid == e.artifact_refs[i]
             old == IF aid \in DOMAIN idx THEN idx[aid] ELSE <<>>
         IN MemIndex(Put(idx, aid, Append(old, e)), e, i + 1)

\* InMemoryLedger.append(event), by a single caller
LedgerAppend(e) ==
    /\ Len(mem_events) < MaxLedger
    /\ mem_events' = Append(mem_events, e)
    /\ by_artifact' = MemIndex(by_artifact, e, 1)
    /\ UNCHANGED <<engine, live, live_pos, rebuilt_n>>
    /\ UNCHANGED <<impl, strict, log, sql_events, sql_refs, sql_lock, t_pc,
                   t_ev, t_seq, calls, overlapped, committed, writerVars>>
    /\ UNCHANGED <<budgetVars, snapVars, validVars, replayVars, viewVars, confVars, eyeVars, readVars, lockVars, twinVars, emitVars, cacheVars, remoteVars>>

\* live.apply(event) for the next event of the ledger
LiveApply ==
    /\ live_pos < Len(mem_events)
    /\ live' = EngineApply(live, mem_events[live_pos + 1])
    /\ live_pos' = live_pos + 1
    /\ UNCHANGED <<mem_events, engine, rebuilt_n>>
    /\ UNCHANGED notProjVars

\* engine.apply(event) for an event that need not be in the ledger: the engine
\* is then in a state no rebuild produced
StrayApply(e) ==
    /\ rebuilt_n # NotRebuilt \/ engine = NewEngine
    /\ engine' = EngineApply(engine, e)
    /\ engine' # NewEngine
    /\ rebuilt_n' = NotRebuilt
    /\ UNCHANGED <<mem_events, live, live_pos>>
    /\ UNCHANGED notProjVars

\* engine.rebuild_from(ledger)
Rebuild ==
    /\ engine' = RebuildFrom(engine, mem_events)
    /\ rebuilt_n' = Len(mem_events)
    /\ UNCHANGED <<mem_events, live, live_pos>>
    /\ UNCHANGED notProjVars

NextProj ==
    \/ \E e \in EventPool : LedgerAppend(e)
    \/ LiveApply
    \/ \E e \in StrayPool : StrayApply(e)
    \/ Rebuild

(***************************************************************************)
(* The ledger stores: InMemoryLedger and the SQLite Ledger                 *)
(* (atlas/ledger/__init__.py), appended to by two threads                  *)
(***************************************************************************)
MaxCalls == 3      \* append calls begun on one store

Threads == {"t1", "t2"}

Impls == {"InMemoryLedger", "Ledger", "EventWriter"}

\* The events appended to InMemoryLedger and Ledger: timestamps that run
\* against append order, events with one, two and no artifact references.
LedgerPool == { e \in EventPool : e.event_id \in {"e01", "e02", "e18"} }

ArtifactIds == {"a1", "a2"}

RECURSIVE IsSubseq(_, _)
\* s can be obtained from t by deleting elements
IsSubseq(s, t) ==
    IF s = <<>> THEN TRUE
    ELSE IF t = <<>> THEN FALSE
    ELSE IF Head(s) = Head(t) THEN IsSubseq(Tail(s), Tail(t))
    ELSE IsSubseq(s, Tail(t))

\* ---- InMemoryLedger ----

\* InMemoryLedger.iter_events(artifact_id=aid)
MemIterArtifact(idx, aid) == IF aid \in DOMAIN idx THEN idx[aid] ELSE <<>>

\* InMemoryLedger.count() and latest_sequence()
MemCount(events) == Len(events)
MemLatestSequence(events) == Len(events)

Busy == \E u \in Threads : t_pc[u] # "idle"

\* sequence = len(self._events) + 1
MemRead(t, e) ==
    /\ impl = "InMemoryLedger"
    /\ t_pc[t] = "idle"
    /\ calls < MaxCalls
    /\ calls' = calls + 1
    /\ overlapped' = (overlapped \/ Busy)
    /\ t_seq' = [t_seq EXCEPT ![t] = Len(mem_events) + 1]
    /\ t_ev' = [t_ev EXCEPT ![t] = <<e>>]
    /\ t_pc' = [t_pc EXCEPT ![t] = "read"]
    /\ UNCHANGED <<mem_events, by_artifact, sql_events, sql_refs, sql_lock,
                   committed, log, impl, strict, writerVars>>
    /\ UNCHANGED notLedgerVars

\* self._events.append(event)
MemStore(t) ==
    /\ impl = "InMemoryLedger"
    /\ t_pc[t] = "read"
    /\ mem_events' = Append(mem_events, t_ev[t][1])
    /\ log' = Append(log, t_ev[t][1])
    /\ committed' = Append(committed, [thread |-> t, seq |-> t_seq[t]])
    /\ t_pc' = [t_pc EXCEPT ![t] = "stored"]
    /\ UNCHANGED <<by_artifact, sql_events, sql_refs, sql_lock, t_ev, t_seq,
                   calls, overlapped, impl, strict, writerVars>>
    /\ UNCHANGED notLedgerVars

\* the index updates of append, and its return
MemIndexReturn(t) ==
    /\ impl = "InMemoryLedger"
    /\ t_pc[t] = "stored"
    /\ by_artifact' = MemIndex(by_artifact, t_ev[t][1], 1)
    /\ t_pc' = [t_pc EXCEPT ![t] = "idle"]
    /\ t_ev' = [t_ev EXCEPT ![t] = <<>>]
    /\ t_seq' = [t_seq EXCEPT ![t] = 0]
    /\ UNCHANGED <<mem_events, sql_events, sql_refs, sql_lock, calls,
                   overlapped, committed, log, impl, strict, writerVars>>
    /\ UNCHANGED notLedgerVars

\* ---- Ledger (SQLite) ----

\* the row INSERTed for an event, and Ledger._row_to_event
SqlRow(e, n) ==
    [sequence_number |-> n, event_id |-> e.event_id,
     timestamp |-> e.timestamp, event_type |-> e.event_type,
     payload |-> e.payload, artifact_refs |-> e.artifact_refs]

RowToEvent(row) ==
    Ev(row.event_id, row.event_type, row.timestamp, row.artifact_refs,
       row.payload)

\* ORDER BY e.sequence_number ASC
RECURSIVE OrderBySequence(_)
OrderBySequence(rows) ==
    IF rows = {} THEN <<>>
    ELSE LET first == CHOOSE r \in rows :
                          \A q \in rows : r.sequence_number <= q.sequence_number
         IN <<RowToEvent(first)>> \o OrderBySequence(rows \ {first})

\* Ledger.iter_events() and Ledger.iter_events(artifact_id=aid)
SqlIterAll(rows) == OrderBySequence(rows)
SqlIterArtifact(rows, refs, aid) ==
    OrderBySequence({ r \in rows : <<r.event_id, aid>> \in refs })

\* Ledger.count() and Ledger.latest_sequence()
SqlCount(rows) == Cardinality(rows)
SqlLatestSequence(rows) ==
    IF rows = {} THEN 0
    ELSE LET last == CHOOSE r \in rows :
                         \A q \in rows : r.sequence_number >= q.sequence_number
         IN last.sequence_number

\* AUTOINCREMENT: one more than the largest sequence number ever committed
\* (no row is ever deleted, so this is the largest one in the table)
NextRowId(rows) == SqlLatestSequence(rows) + 1

\* conn.execute(INSERT ...): BEGIN IMMEDIATE takes the write lock, the row is
\* inserted inside the transaction
SqlInsert(t, e) ==
    /\ impl = "Ledger"
    /\ t_pc[t] = "idle"
    /\ calls < MaxCalls
    /\ sql_lock = None
    /\ \A r \in sql_events : r.event_id # e.event_id
    /\ calls' = calls + 1
    /\ overlapped' = (overlapped \/ Busy)
    /\ sql_lock' = Some(t)
    /\ t_seq' = [t_seq EXCEPT ![t] = NextRowId(sql_events)]
    /\ t_ev' = [t_ev EXCEPT ![t] = <<e>>]
    /\ t_pc' = [t_pc EXCEPT ![t] = "inserted"]
    /\ UNCHANGED <<mem_events, by_artifact, sql_events, sql_refs, committed,
                   log, impl, strict, writerVars>>
    /\ UNCHANGED notLedgerVars

\* the INSERT fails: the event_id is already in the table (UNIQUE), or another
\* connection held the lock for the whole busy timeout; _connect rolls back
\* and re-raises
SqlInsertFails(t, e) ==
    /\ impl = "Ledger"
    /\ t_pc[t] = "idle"
    /\ calls < MaxCalls
    /\ \/ sql_lock # None
       \/ \E r \in sql_events : r.event_id = e.event_id
    /\ calls' = calls + 1
    /\ overlapped' = (overlapped \/ Busy)
    /\ UNCHANGED <<mem_events, by_artifact, sql_events, sql_refs, sql_lock,
                   t_pc, t_ev, t_seq, committed, log, impl, strict, writerVars>>
    /\ UNCHANGED notLedgerVars

\* the artifact reference rows, conn.commit() and return sequence_number
SqlCommit(t) ==
    /\ impl = "Ledger"
    /\ t_pc[t] = "inserted"
    /\ LET e == t_ev[t][1] IN
         /\ sql_events' = sql_events \cup {SqlRow(e, t_seq[t])}
         /\ sql_refs' = sql_refs \cup
                 { <<e.event_id, e.artifact_refs[i]>> : i \in DOMAIN e.artifact_refs }
         /\ log' = Append(log, e)
    /\ committed' = Append(committed, [thread |-> t, seq |-> t_seq[t]])
    /\ sql_lock' = None
    /\ t_pc' = [t_pc EXCEPT ![t] = "idle"]
    /\ t_ev' = [t_ev EXCEPT ![t] = <<>>]
    /\ t_seq' = [t_seq EXCEPT ![t] = 0]
    /\ UNCHANGED <<mem_events, by_artifact, calls, overlapped, impl, strict,
                   writerVars>>
    /\ UNCHANGED notLedgerVars

(***************************************************************************)
(* The event validator (atlas/ledger/validator.py)                         *)
(*                                                                         *)
(* A Python value is <<type, value>>; an event is a function from the keys *)
(* it has to such values.                                                  *)
(***************************************************************************)
JStr(s) == <<"str", s>>
JInt(n) == <<"int", n>>
JFloat(n) == <<"float", n>>
JDict(d) == <<"dict", d>>
JList(l) == <<"list", l>>
JNone == <<"none", "">>

\* isinstance(value, types); bool is a subclass of int
IsInstance(v, types) == v[1] \in types \/ (v[1] = "bool" /\ "int" \in types)

\* EventType: all valid event types
EventTypes ==
    {"ARTIFACT_SEEN", "FINGERPRINT_COMPUTED", "EXTRACTION_PERFORMED",
     "ACCESS_LIMITATION_NOTED", "REMOTE_LOOKUP_DECLINED", "TAGS_PROPOSED",
     "ROLES_PROPOSED", "RELATION_PROPOSED", "CONFLICT_DETECTED",
     "HYPOTHESIS_NOTED", "CONFIDENCE_UPDATED", "FRESHNESS_DECAY_APPLIED",
     "ARTIFACT_SUPERSEDED", "ARCHIVE_RECOMMENDED", "PRUNE_CACHE_RECOMMENDED",
     "FILE_ARCHIVED", "SESSION_STARTED", "SESSION_ENDED"}

EnvelopeRequired ==
    [event_id |-> {"str"}, event_type |-> {"str"}, ts |-> {"int", "float"},
     actor |-> {"dict"}, payload |-> {"dict"}]

EnvelopeOptional ==
    [artifact_id |-> {"str", "none"}, confidence |-> {"int", "float", "none"},
     evidence_refs |-> {"list"}, session_id |-> {"str", "none"}]

ActorRequired == [module |-> {"str"}]

\* one entry of a payload schema: (types, required)
Req(types) == [types |-> types, required |-> TRUE]
Opt(types) == [types |-> types, required |-> FALSE]

PayloadSchemas ==
    [ARTIFACT_SEEN |->
        [artifact_id |-> Req({"str"}), locator |-> Req({"str"}),
         artifact_kind |-> Opt({"str"}), size_bytes |-> Opt({"int"}),
         mtime |-> Opt({"int", "float"})],
     FINGERPRINT_COMPUTED |->
        [artifact_id |-> Req({"str"}), content_hash |-> Req({"str"}),
         structure_hash |-> Opt({"str", "none"}),
         entropy_score |-> Opt({"int", "float", "none"})],
     EXTRACTION_PERFORMED |->
        [artifact_id |-> Req({"str"}), extraction_depth |-> Opt({"int"}),
         extracted_metadata |-> Opt({"dict"}),
         extraction_errors |-> Opt({"list"})],
     ACCESS_LIMITATION_NOTED |->
        [artifact_id |-> Req({"str"}), limitation_type |-> Req({"str"}),
         reason |-> Opt({"str"})],
     REMOTE_LOOKUP_DECLINED |->
        [url |-> Req({"str"}), reason |-> Req({"str"})],
     TAGS_PROPOSED |->
        [artifact_id |-> Req({"str"}), tags |-> Req({"list"}),
         tag_type |-> Opt({"str"})],
     ROLES_PROPOSED |->
        [artifact_id |-> Req({"str"}), roles |-> Req({"list"})],
     RELATION_PROPOSED |->
        [source_id |-> Req({"str"}), target_id |-> Req({"str"}),
         relation_type |-> Req({"str"}), directional |-> Opt({"bool"})],
     CONFLICT_DETECTED |->
        [artifact_ids |-> Req({"list"}), conflict_type |-> Req({"str"}),
         description |-> Opt({"str"})],
     HYPOTHESIS_NOTED |->
        [hypothesis |-> Req({"str"}), supporting_evidence |-> Opt({"list"})],
     CONFIDENCE_UPDATED |->
        [artifact_id |-> Req({"str"}),
         old_confidence |-> Opt({"int", "float", "none"}),
         new_confidence |-> Req({"int", "float"}), reason |-> Opt({"str"})],
     FRESHNESS_DECAY_APPLIED |->
        [artifact_id |-> Req({"str"}), decay_factor |-> Req({"int", "float"})],
     ARTIFACT_SUPERSEDED |->
        [old_artifact_id |-> Req({"str"}), new_artifact_id |-> Req({"str"}),
         reason |-> Opt({"str"})],
     ARCHIVE_RECOMMENDED |->
        [artifact_id |-> Req({"str"}), reason |-> Req({"str"}),
         staleness_days |-> Opt({"int", "float"})],
     PRUNE_CACHE_RECOMMENDED |->
        [path |-> Req({"str"}), reason |-> Req({"str"}),
         age_days |-> Opt({"int", "float"})],
     FILE_ARCHIVED |->
        [original_path |-> Req({"str"}), archive_path |-> Req({"str"})],
     SESSION_STARTED |->
        [target |-> Opt({"str"}), command |-> Opt({"str"})],
     SESSION_ENDED |->
        [duration_ms |-> Opt({"int", "float"}), files_seen |-> Opt({"int"}),
         bytes_accounted |-> Opt({"int"}),
         stopped_reason |-> Opt({"str", "none"})]]

\* Each _validate_* returns the paths of the errors it found.

\* EventValidator._validate_envelope
ValidateEnvelope(event) ==
    { <<f>> : f \in
        { g \in DOMAIN EnvelopeRequired :
            \/ g \notin DOMAIN event
            \/ ~IsInstance(event[g], EnvelopeRequired[g]) } }
    \cup
    { <<f>> : f \in
        { g \in DOMAIN EnvelopeOptional :
            /\ g \in DOMAIN event
            /\ event[g][1] # "none"
            /\ ~IsInstance(event[g], EnvelopeOptional[g]) } }

\* EventValidator._validate_event_type
ValidateEventType(event_type) ==
    IF event_type \in EventTypes THEN {} ELSE {<<"event_type">>}

\* EventValidator._validate_actor
ValidateActor(actor) ==
    { <<"actor", f>> : f \in
        { g \in DOMAIN ActorRequired :
            \/ g \notin DOMAIN actor
            \/ ~IsInstance(actor[g], ActorRequired[g]) } }

\* EventValidator._validate_payload
ValidatePayload(event_type, payload) ==
    LET schema == PayloadSchemas[event_type] IN
    { <<"payload", f>> : f \in
        { g \in DOMAIN schema :
            IF g \notin DOMAIN payload THEN schema[g].required
            ELSE /\ payload[g][1] # "none"
                 /\ ~IsInstance(payload[g], schema[g].types) } }

\* EventValidator.validate: the envelope first and, if it is good, the event
\* type, the actor and the payload
Validate(event) ==
    LET env == ValidateEnvelope(event) IN
    IF env # {} THEN env
    ELSE LET event_type == event["event_type"][2] IN
         ValidateEventType(event_type)
         \cup ValidateActor(event["actor"][2])
         \cup (IF event_type \in DOMAIN PayloadSchemas
               THEN ValidatePayload(event_type, event["payload"][2])
               ELSE {})

\* validate_strict(event).valid
ValidateStrict(event) == Validate(event) = {}

\* ---- validate_strict applied to events with chosen defects ----

\* del d[k]
Del(d, k) == [x \in DOMAIN d \ {k} |-> d[x]]

\* ValidationResult: valid exactly when no error was merged in.  No
\* _validate_* method reports a path twice and the paths of two methods
\* differ, so the list of errors is given by the set of its paths.
ValidationResult(errors) == [valid |-> errors = {}, errors |-> errors]

\* The defects an event is built with
EnvelopeDefects ==
    {"none", "no_ts", "ts_str", "confidence_str", "artifact_id_none"}
ActorDefects == {"none", "no_module", "module_none"}
PayloadDefects ==
    {"none", "no_locator", "locator_none", "locator_int", "size_str",
     "size_none"}
TypesDrawn == {"ARTIFACT_SEEN", "ARTIFACT_MOVED"}

VPayload(defect) ==
    LET good == [artifact_id |-> JStr("a1"), locator |-> JStr("/x")] IN
    CASE defect = "none"         -> good
      [] defect = "no_locator"   -> Del(good, "locator")
      [] defect = "locator_none" -> Put(good, "locator", JNone)
      [] defect = "locator_int"  -> Put(good, "locator", JInt(1))
      [] defect = "size_str"     -> Put(good, "size_bytes", JStr("1"))
      [] defect = "size_none"    -> Put(good, "size_bytes", JNone)

VActor(defect) ==
    CASE defect = "none"        -> [module |-> JStr("eye")]
      [] defect = "no_module"   -> <<>>
      [] defect = "module_none" -> [module |-> JNone]

VEvent(type, env, act, pay) ==
    LET good == [event_id |-> JStr("e1"), event_type |-> JStr(type),
                 ts |-> JFloat(1), actor |-> JDict(VActor(act)),
                 payload |-> JDict(VPayload(pay))]
    IN CASE env = "none"             -> good
         [] env = "no_ts"            -> Del(good, "ts")
         [] env = "ts_str"           -> Put(good, "ts", JStr("1"))
         [] env = "confidence_str"   -> Put(good, "confidence", JStr("1"))
         [] env = "artifact_id_none" -> Put(good, "artifact_id", JNone)

ValidatorPool ==
    { VEvent(type, env, act, pay) :
        type \in TypesDrawn, env \in EnvelopeDefects,
        act \in ActorDefects, pay \in PayloadDefects }

ValidStart ==
    /\ v_event \in ValidatorPool
    /\ v_result = None

\* validate_strict(event)
ValidateStrictCall ==
    /\ v_result = None
    /\ v_result' = Some(ValidationResult(Validate(v_event)))
    /\ UNCHANGED v_event
    /\ UNCHANGED notValidVars

NextValid == ValidateStrictCall

ValidIdle ==
    /\ v_event = None
    /\ v_result = None

(***************************************************************************)
(* EventWriter and EventReader (atlas/ledger/writer.py, reader.py)         *)
(*                                                                         *)
(* The text of a segment is a sequence of pieces: <<"json", id>> is the    *)
(* whole json.dumps text of the event with that event_id, <<"cut", id>> a  *)
(* proper prefix of that text (what a crash can leave), <<"nl", "">> the   *)
(* newline.  The wall clock never runs backwards.                          *)
(***************************************************************************)
MaxAppends == 2    \* EventWriter.append calls that pass the checks
MaxDay == 2        \* UTC days the clock passes through
MaxCrashes == 1    \* process crashes

WActor == JDict([module |-> JStr("eye")])

\* The events passed to EventWriter.append: two valid ARTIFACT_SEEN whose
\* timestamps run against append order, the CONFIDENCE_UPDATED that
\* ConfidenceEngine._emit_confidence_updated builds (its payload
\* has no artifact_id), and an event without event_id.
WriterPool ==
    { [event_id |-> JStr("w1"), event_type |-> JStr("ARTIFACT_SEEN"),
       ts |-> JFloat(2), actor |-> WActor,
       payload |-> JDict([artifact_id |-> JStr("a1"), locator |-> JStr("/x")])],
      [event_id |-> JStr("w2"), event_type |-> JStr("ARTIFACT_SEEN"),
       ts |-> JFloat(1), actor |-> WActor,
       payload |-> JDict([artifact_id |-> JStr("a2"), locator |-> JStr("/y"),
                          size_bytes |-> JInt(1)])],
      [event_id |-> JStr("w3"), event_type |-> JStr("CONFIDENCE_UPDATED"),
       ts |-> JFloat(2), actor |-> JDict([module |-> JStr("ConfidenceEngine")]),
       artifact_id |-> JStr("a1"), confidence |-> JFloat(1),
       evidence_refs |-> JList(<<"w1">>),
       payload |-> JDict([old_confidence |-> JFloat(0),
                          new_confidence |-> JFloat(1), delta |-> JFloat(1),
                          reason |-> JStr("r")])],
      [event_type |-> JStr("ARTIFACT_SEEN"), ts |-> JFloat(1),
       actor |-> WActor,
       payload |-> JDict([artifact_id |-> JStr("a1"), locator |-> JStr("/x")])] }

NL == <<"nl", "">>

\* json.dumps(event, ensure_ascii=False), and what a crash leaves of it
JsonDumps(event) == <<"json", event["event_id"][2]>>
CutText(piece) == <<"cut", piece[2]>>

\* json.loads(line): only the whole text of one event parses
Parses(line) == Len(line) = 1 /\ line[1][1] = "json"
JsonLoads(line) ==
    CHOOSE e \in WriterPool :
        "event_id" \in DOMAIN e /\ e["event_id"][2] = line[1][2]

\* for line in f: the text between newlines, and an unterminated last line
RECURSIVE SplitLines(_, _, _)
SplitLines(content, cur, acc) ==
    IF content = <<>> THEN (IF cur = <<>> THEN acc ELSE Append(acc, cur))
    ELSE IF Head(content) = NL
         THEN SplitLines(Tail(content), <<>>, Append(acc, cur))
         ELSE SplitLines(Tail(content), Append(cur, Head(content)), acc)

FileLines(content) == SplitLines(content, <<>>, <<>>)

\* sorted(self.ledger_dir.glob("*.jsonl")) and the lines of these files
RECURSIVE SortedDays(_)
SortedDays(days) ==
    IF days = {} THEN <<>>
    ELSE LET d == CHOOSE x \in days : \A y \in days : x <= y
         IN <<d>> \o SortedDays(days \ {d})

RECURSIVE LinesOf(_, _, _)
LinesOf(segs, files, i) ==
    IF i > Len(files) THEN <<>>
    ELSE FileLines(segs[files[i]]) \o LinesOf(segs, files, i + 1)

AllLines(segs) == LinesOf(segs, SortedDays(DOMAIN segs), 1)

\* EventReader.read_all consumed to its end: yield json.loads(line) for each
\* line; an exception of json.loads ends the generator
RECURSIVE ReadLines(_, _, _)
ReadLines(lines, i, acc) ==
    IF i > Len(lines) THEN [events |-> acc, raised |-> FALSE]
    ELSE IF Parses(lines[i])
         THEN ReadLines(lines, i + 1, Append(acc, JsonLoads(lines[i])))
         ELSE [events |-> acc, raised |-> TRUE]

ReadAll(segs) == ReadLines(AllLines(segs), 1, <<>>)

\* the events of the lines that are well-formed
RECURSIVE WellFormed(_, _)
WellFormed(lines, i) ==
    IF i > Len(lines) THEN <<>>
    ELSE (IF Parses(lines[i]) THEN <<JsonLoads(lines[i])>> ELSE <<>>)
         \o WellFormed(lines, i + 1)

WellFormedEvents(segs) == WellFormed(AllLines(segs), 1)

\* EventWriter._event_file: the current UTC date's file
EventFile_ByEventTs(today, event) ==
    IF "ts" \in DOMAIN event THEN event["ts"][2] ELSE today
EventFile(today, event) == today

\* open(path, "a"): the file is created empty if it does not exist
OpenTruncate(files, path) == Put(files, path, <<>>)
OpenAppend(files, path) ==
    IF path \in DOMAIN files THEN files ELSE Put(files, path, <<>>)

\* the checks of append before anything is written
BasicOnly(event, isStrict) ==
    "event_id" \in DOMAIN event /\ "event_type" \in DOMAIN event
Accepted(event, isStrict) ==
    /\ "event_id" \in DOMAIN event /\ "event_type" \in DOMAIN event
    /\ isStrict => ValidateStrict(event)

\* append that opens the day's file before it checks the event
AppendRejected_OpensFirst(e) ==
    /\ impl = "EventWriter"
    /\ w_pc = "idle"
    /\ ~Accepted(e, strict)
    /\ w_event' = <<e>>
    /\ w_result' = "ValueError"
    /\ segments' = OpenAppend(segments, EventFile(utc_day, e))
    /\ synced' = [d \in DOMAIN segments' |->
                     IF d \in DOMAIN synced THEN synced[d] ELSE 0]
    /\ UNCHANGED <<utc_day, w_pc, w_path, w_buf, returned,
                   crashes, impl, strict, log, threadVars, mem_events>>
    /\ UNCHANGED notLedgerVars

\* append raises ValueError
AppendRejected(e) ==
    /\ impl = "EventWriter"
    /\ w_pc = "idle"
    /\ ~Accepted(e, strict)
    /\ w_event' = <<e>>
    /\ w_result' = "ValueError"
    /\ UNCHANGED <<segments, synced, utc_day, w_pc, w_path, w_buf, returned,
                   crashes, impl, strict, log, threadVars, mem_events>>
    /\ UNCHANGED notLedgerVars

\* the checks pass; with self._lock: path = self._event_file();
\* open(path, "a"); f.write(line + "\n")
AppendWrite(e) ==
    /\ impl = "EventWriter"
    /\ w_pc = "idle"
    /\ calls < MaxAppends
    /\ Accepted(e, strict)
    /\ calls' = calls + 1
    /\ w_event' = <<e>>
    /\ w_path' = EventFile(utc_day, e)
    /\ segments' = OpenAppend(segments, w_path')
    /\ synced' = IF w_path' \in DOMAIN synced THEN synced
                 ELSE Put(synced, w_path', 0)
    /\ w_buf' = <<JsonDumps(e), NL>>
    /\ log' = Append(log, e)
    /\ w_pc' = "written"
    /\ w_result' = "pending"
    /\ UNCHANGED <<utc_day, returned, crashes, impl, strict,
                   by_artifact, sql_events, sql_refs, sql_lock, t_pc, t_ev,
                   t_seq, overlapped, committed, mem_events>>
    /\ UNCHANGED notLedgerVars

\* f.flush()
AppendFlush ==
    /\ impl = "EventWriter"
    /\ w_pc = "written"
    /\ segments' = [segments EXCEPT ![w_path] = @ \o w_buf]
    /\ w_buf' = <<>>
    /\ w_pc' = "flushed"
    /\ UNCHANGED <<synced, utc_day, w_event, w_path, w_result, returned,
                   crashes, impl, strict, log, threadVars, mem_events>>
    /\ UNCHANGED notLedgerVars

\* os.fsync(f.fileno())
AppendFsync ==
    /\ impl = "EventWriter"
    /\ w_pc = "flushed"
    /\ synced' = [synced EXCEPT ![w_path] = Len(segments[w_path])]
    /\ w_pc' = "synced"
    /\ UNCHANGED <<segments, utc_day, w_event, w_path, w_buf, w_result,
                   returned, crashes, impl, strict, log, threadVars,
                   mem_events>>
    /\ UNCHANGED notLedgerVars

\* the file is closed, the lock released, append returns
AppendReturn ==
    /\ impl = "EventWriter"
    /\ w_pc = "synced"
    /\ returned' = Append(returned, w_event[1])
    /\ w_event' = <<>>
    /\ w_result' = "ok"
    /\ w_pc' = "idle"
    /\ w_path' = 0
    /\ UNCHANGED <<segments, synced, utc_day, w_buf, crashes,
                   impl, strict, log, threadVars, mem_events>>
    /\ UNCHANGED notLedgerVars

\* What a crash can leave of text that was written and not yet fsynced: any
\* prefix of it, the last piece possibly cut short.
CrashTails(tail) ==
    { SubSeq(tail, 1, k) : k \in 0..Len(tail) }
    \cup { Append(SubSeq(tail, 1, k - 1), CutText(tail[k])) :
             k \in { j \in 1..Len(tail) : tail[j][1] = "json" } }

\* The process dies and is started again with a new EventWriter.  Text that
\* was fsynced survives; of the rest of an append in progress any part may.
Crash ==
    /\ impl = "EventWriter"
    /\ crashes < MaxCrashes
    /\ crashes' = crashes + 1
    /\ IF w_pc \in {"written", "flushed"}
       THEN \E tail \in CrashTails(SubSeq(segments[w_path] \o w_buf,
                                          synced[w_path] + 1,
                                          Len(segments[w_path] \o w_buf))) :
               segments' = [segments EXCEPT ![w_path] =
                               SubSeq(@, 1, synced[w_path]) \o tail]
       ELSE segments' = segments
    /\ synced' = [d \in DOMAIN segments' |-> Len(segments'[d])]
    /\ w_pc' = "idle"
    /\ w_path' = 0
    /\ w_event' = <<>>
    /\ w_buf' = <<>>
    /\ w_result' = "crashed"
    /\ UNCHANGED <<utc_day, returned, impl, strict, log,
                   threadVars, mem_events>>
    /\ UNCHANGED notLedgerVars

\* midnight UTC passes
Tick ==
    /\ impl = "EventWriter"
    /\ utc_day < MaxDay
    /\ utc_day' = utc_day + 1
    /\ UNCHANGED <<segments, synced, w_pc, w_event, w_path, w_buf, w_result,
                   returned, crashes, impl, strict, log, threadVars,
                   mem_events>>
    /\ UNCHANGED notLedgerVars

\* list(EventReader(ledger_dir).read_all()), by this or another process: the
\* files are opened for reading; what is yielded is ReadAll(segments)
ReadAllCall ==
    /\ impl = "EventWriter"
    /\ ReadAll(segments).events \in Seq(WriterPool)
    /\ UNCHANGED <<ledgerVars, mem_events>>
    /\ UNCHANGED notLedgerVars

(***************************************************************************)
(* write_snapshot (atlas/state/snapshots.py)                               *)
(*                                                                         *)
(* A file is [content, synced]: its text, in the pieces used for segments  *)
(* (here <<"json", id>> is the json.dumps text of the state of artifact    *)
(* id), and the length of the text that is on disk.                        *)
(***************************************************************************)
MaxSnapshots == 2  \* write_snapshot calls

\* the artifacts passed to write_snapshot, as the ids in dict order
SnapInputs == { <<>>, <<"a1">>, <<"a2", "a1">> }

File(content, n) == [content |-> content, synced |-> n]

\* the lines write_snapshot writes for artifacts, from artifact i on
RECURSIVE SnapText(_, _)
SnapText(artifacts, i) ==
    IF i > Len(artifacts) THEN <<>>
    ELSE <<(<<"json", artifacts[i]>>), NL>> \o SnapText(artifacts, i + 1)

\* os.fsync(f.fileno()) of the temp file
FsyncSkipped(f) == f
Fsync(f) == File(f.content, Len(f.content))

\* fd, tmp_path = tempfile.mkstemp(suffix=".tmp", prefix="snapshot_", dir=dir_path)
Mkstemp(artifacts) ==
    /\ s_pc = "idle"
    /\ s_calls < MaxSnapshots
    /\ s_calls' = s_calls + 1
    /\ s_artifacts' = artifacts
    /\ tmp_file' = Some(File(<<>>, 0))
    /\ s_pc' = "created"
    /\ s_result' = "pending"
    /\ UNCHANGED <<snap_file, snap_disk, s_buf, s_crashes>>
    /\ UNCHANGED notSnapVars

\* for artifact_id, state in artifacts.items(): f.write(line + "\n")
SnapWrite ==
    /\ s_pc = "created"
    /\ s_buf' = SnapText(s_artifacts, 1)
    /\ s_pc' = "written"
    /\ UNCHANGED <<snap_file, snap_disk, tmp_file, s_artifacts, s_result,
                   s_calls, s_crashes>>
    /\ UNCHANGED notSnapVars

\* f.flush()
SnapFlush ==
    /\ s_pc = "written"
    /\ tmp_file' = Some(File(tmp_file[1].content \o s_buf, tmp_file[1].synced))
    /\ s_buf' = <<>>
    /\ s_pc' = "flushed"
    /\ UNCHANGED <<snap_file, snap_disk, s_artifacts, s_result, s_calls,
                   s_crashes>>
    /\ UNCHANGED notSnapVars

\* os.fsync(f.fileno()), and the file is closed
SnapFsync ==
    /\ s_pc = "flushed"
    /\ tmp_file' = Some(Fsync(tmp_file[1]))
    /\ s_pc' = "closed"
    /\ UNCHANGED <<snap_file, snap_disk, s_buf, s_artifacts, s_result,
                   s_calls, s_crashes>>
    /\ UNCHANGED notSnapVars

\* Path(tmp_path).replace(path); return count
SnapReplace ==
    /\ s_pc = "closed"
    /\ snap_file' = tmp_file
    /\ tmp_file' = None
    /\ s_pc' = "idle"
    /\ s_result' = "returned"
    /\ UNCHANGED <<snap_disk, s_buf, s_artifacts, s_calls, s_crashes>>
    /\ UNCHANGED notSnapVars

\* an exception before the rename has happened (json.dumps, a full disk, a
\* failing rename): except Exception: os.unlink(tmp_path); raise
SnapFails ==
    /\ s_pc \in {"created", "written", "flushed", "closed"}
    /\ tmp_file' = None
    /\ s_buf' = <<>>
    /\ s_pc' = "idle"
    /\ s_result' = "raised"
    /\ UNCHANGED <<snap_file, snap_disk, s_artifacts, s_calls, s_crashes>>
    /\ UNCHANGED notSnapVars

\* the file system writes the directory: the last rename is on disk
SnapDirSync ==
    /\ snap_disk # snap_file
    /\ snap_disk' = snap_file
    /\ UNCHANGED <<snap_file, tmp_file, s_pc, s_buf, s_artifacts, s_result,
                   s_calls, s_crashes>>
    /\ UNCHANGED notSnapVars

\* what a crash leaves of a file: the text that was fsynced and any part of
\* the rest
CrashFiles(f) ==
    IF f = None THEN {None}
    ELSE { Some(File(SubSeq(f[1].content, 1, f[1].synced) \o tail,
                     f[1].synced + Len(tail))) :
             tail \in CrashTails(SubSeq(f[1].content, f[1].synced + 1,
                                        Len(f[1].content))) }

\* The process dies at any point.  A rename that is not yet on disk may be
\* lost; the temp file stays behind.
SnapCrash ==
    /\ s_crashes < MaxCrashes
    /\ s_crashes' = s_crashes + 1
    /\ snap_file' \in CrashFiles(snap_file) \cup CrashFiles(snap_disk)
    /\ snap_disk' = snap_file'
    /\ tmp_file' \in CrashFiles(tmp_file)
    /\ s_buf' = <<>>
    /\ s_pc' = "idle"
    /\ s_result' = "crashed"
    /\ UNCHANGED <<s_artifacts, s_calls>>
    /\ UNCHANGED notSnapVars

NextSnap ==
    \/ \E artifacts \in SnapInputs : Mkstemp(artifacts)
    \/ SnapWrite
    \/ SnapFlush
    \/ SnapFsync
    \/ SnapReplace
    \/ SnapFails
    \/ SnapDirSync
    \/ SnapCrash

SnapIdle ==
    /\ snap_file = None
    /\ snap_disk = None
    /\ tmp_file = None
    /\ s_pc = "idle"
    /\ s_buf = <<>>
    /\ s_artifacts = <<>>
    /\ s_result = "none"
    /\ s_calls = 0
    /\ s_crashes = 0

\* a Python value is truthy: not None, not "", not 0, not empty
JTruthy(v) ==
    /\ v[1] # "none"
    /\ v[1] = "str" => v[2] # ""
    /\ v[1] \in {"dict", "list"} => v[2] # <<>>
    /\ v[1] \in {"int", "float"} => v[2] # 0
    /\ v[1] = "bool" => v[2]

\* project_artifacts: the artifact_id an event is reduced under, None if none
EventArtifactId(event) ==
    IF "artifact_id" \in DOMAIN event /\ JTruthy(event["artifact_id"])
    THEN Some(event["artifact_id"][2])
    ELSE IF /\ "payload" \in DOMAIN event
            /\ "artifact_id" \in DOMAIN event["payload"][2]
            /\ JTruthy(event["payload"][2]["artifact_id"])
         THEN Some(event["payload"][2]["artifact_id"][2])
         ELSE None

\* the keys of project_artifacts(events), in dict order, from event i on
RECURSIVE ProjectedIds(_, _, _)
ProjectedIds(events, i, acc) ==
    IF i > Len(events) THEN acc
    ELSE LET aid == EventArtifactId(events[i]) IN
         IF aid = None \/ \E j \in DOMAIN acc : acc[j] = aid[1]
         THEN ProjectedIds(events, i + 1, acc)
         ELSE ProjectedIds(events, i + 1, Append(acc, aid[1]))

\* cmd_rebuild: events = list(reader.read_all()); if there are any,
\* write_snapshot(snap_path, project_artifacts(events)), here from call to
\* return with no failure.  An exception of read_all ends the command.
CmdRebuild ==
    /\ impl = "EventWriter"
    /\ LET read == ReadAll(segments) IN
         /\ ~read.raised
         /\ read.events # <<>>
         /\ snap_file' = Some(Fsync(File(
                 SnapText(ProjectedIds(read.events, 1, <<>>), 1), 0)))
    /\ UNCHANGED <<snap_disk, tmp_file, s_pc, s_buf, s_artifacts, s_result,
                   s_calls, s_crashes>>
    /\ UNCHANGED <<ledgerVars, mem_events, budgetVars, engineVars, validVars,
                   replayVars, viewVars, confVars, eyeVars, readVars, lockVars, twinVars, emitVars, cacheVars, remoteVars>>

LedgerIdle ==
    /\ impl = "none"
    /\ strict = FALSE
    /\ log = <<>>
    /\ by_artifact = <<>>
    /\ sql_events = {}
    /\ sql_refs = {}
    /\ sql_lock = None
    /\ t_pc = [t \in Threads |-> "idle"]
    /\ t_ev = [t \in Threads |-> <<>>]
    /\ t_seq = [t \in Threads |-> 0]
    /\ calls = 0
    /\ overlapped = FALSE
    /\ committed = <<>>
    /\ segments = <<>>
    /\ synced = <<>>
    /\ utc_day = 1
    /\ w_pc = "idle"
    /\ w_event = <<>>
    /\ w_path = 0
    /\ w_buf = <<>>
    /\ w_result = "none"
    /\ returned = <<>>
    /\ crashes = 0

\* a new, empty store of one of the three kinds; an EventWriter with or
\* without strict validation
LedgerStart ==
    /\ impl \in Impls
    /\ strict \in (IF impl = "EventWriter" THEN BOOLEAN ELSE {FALSE})
    /\ log = <<>>
    /\ by_artifact = <<>>
    /\ sql_events = {}
    /\ sql_refs = {}
    /\ sql_lock = None
    /\ t_pc = [t \in Threads |-> "idle"]
    /\ t_ev = [t \in Threads |-> <<>>]
    /\ t_seq = [t \in Threads |-> 0]
    /\ calls = 0
    /\ overlapped = FALSE
    /\ committed = <<>>
    /\ segments = <<>>
    /\ synced = <<>>
    /\ utc_day = 1
    /\ w_pc = "idle"
    /\ w_event = <<>>
    /\ w_path = 0
    /\ w_buf = <<>>
    /\ w_result = "none"
    /\ returned = <<>>
    /\ crashes = 0

NextLedger ==
    \/ \E t \in Threads, e \in LedgerPool : MemRead(t, e)
    \/ \E t \in Threads : MemStore(t)
    \/ \E t \in Threads : MemIndexReturn(t)
    \/ \E t \in Threads, e \in LedgerPool : SqlInsert(t, e)
    \/ \E t \in Threads, e \in LedgerPool : SqlInsertFails(t, e)
    \/ \E t \in Threads : SqlCommit(t)
    \/ \E e \in WriterPool : AppendRejected(e)
    \/ \E e \in WriterPool : AppendWrite(e)
    \/ AppendFlush
    \/ AppendFsync
    \/ AppendReturn
    \/ Crash
    \/ Tick
    \/ ReadAllCall
    \/ CmdRebuild

(***************************************************************************)
(* The reducers (atlas/ledger/reducers.py) and a ProjectionEngine, each    *)
(* given a whole history                                                   *)
(*                                                                         *)
(* The reducers take events as dicts (the validator's representation); an  *)
(* artifact state is a dict from its keys to Python values.                *)
(***************************************************************************)
MaxEvents == 3     \* longest history drawn

\* d.get(key)
JGet(d, k) == IF k \in DOMAIN d THEN d[k] ELSE JNone

\* event.get("payload", {})
PayloadOf(event) ==
    IF "payload" \in DOMAIN event THEN event["payload"][2] ELSE <<>>

\* event.get("event_type", "")
TypeOf(event) ==
    IF "event_type" \in DOMAIN event THEN event["event_type"][2] ELSE ""

\* the state project_artifacts gives an artifact it has not met
NewArtifactState(aid) ==
    [artifact_id |-> JStr(aid), last_seen_at |-> JNone, locator |-> JNone,
     fingerprint |-> JNone, extraction |-> JNone, confidence |-> JNone]

\* state[key] = d[k] if k in d
Carry(state, key, d, k) ==
    IF k \in DOMAIN d THEN Put(state, key, d[k]) ELSE state

\* _reduce_artifact_seen
ReduceArtifactSeen(state, payload, event) ==
    LET s1 == IF "path" \in DOMAIN payload
              THEN Put(state, "locator", payload["path"])
              ELSE Carry(state, "locator", payload, "locator")
        s2 == Carry(s1, "fingerprint", payload, "content_hash")
        s3 == Carry(s2, "confidence", event, "confidence")
    IN Carry(s3, "size_bytes", payload, "size_bytes")

\* _reduce_artifact_observed
ReduceArtifactObserved(state, payload, event) ==
    LET s1 == Carry(state, "locator", payload, "locator")
        s2 == Carry(s1, "fingerprint", payload, "fingerprint")
    IN Carry(s2, "confidence", event, "confidence")

\* _reduce_fingerprint
ReduceFingerprint_KeepFirst(state, payload) ==
    IF state["fingerprint"] # JNone THEN state
    ELSE IF "hash" \in DOMAIN payload
    THEN Put(state, "fingerprint", payload["hash"])
    ELSE IF "fingerprint" \in DOMAIN payload
    THEN Put(state, "fingerprint", payload["fingerprint"])
    ELSE Carry(state, "fingerprint", payload, "content_hash")
ReduceFingerprint(state, payload) ==
    IF "hash" \in DOMAIN payload
    THEN Put(state, "fingerprint", payload["hash"])
    ELSE IF "fingerprint" \in DOMAIN payload
    THEN Put(state, "fingerprint", payload["fingerprint"])
    ELSE Carry(state, "fingerprint", payload, "content_hash")

\* _reduce_extraction
ReduceExtraction(state, payload) ==
    LET x1 == Carry(<<>>, "depth", payload, "extraction_depth")
        x2 == Carry(x1, "metadata", payload, "extracted_metadata")
        x3 == Carry(x2, "content_type", payload, "content_type")
        x4 == Carry(x3, "size", payload, "size")
        x5 == Carry(x4, "summary", payload, "summary")
        extraction == Carry(x5, "symbols", payload, "symbols")
    IN IF DOMAIN extraction # {} THEN Put(state, "extraction", JDict(extraction))
       ELSE state

\* _reduce_confidence
ReduceConfidence(state, payload, event) ==
    IF "new_confidence" \in DOMAIN payload
    THEN Put(state, "confidence", payload["new_confidence"])
    ELSE Carry(state, "confidence", event, "confidence")

\* the event types project_artifacts dispatches on
ArtifactReduced ==
    {"ARTIFACT_SEEN", "ARTIFACT_OBSERVED", "FINGERPRINT_COMPUTED",
     "ARTIFACT_CONTENT_EXTRACTED", "EXTRACTION_PERFORMED", "CONFIDENCE_UPDATED"}

\* project_artifacts: the body of the loop for one event
ArtifactsEvent(artifacts, event) ==
    LET aid == EventArtifactId(event) IN
    IF aid = None THEN artifacts
    ELSE LET artifact_id == aid[1]
             event_type == TypeOf(event)
             ts == JGet(event, "ts")
             payload == PayloadOf(event)
             state0 == IF artifact_id \in DOMAIN artifacts
                       THEN artifacts[artifact_id]
                       ELSE NewArtifactState(artifact_id)
             state1 == IF /\ ts # JNone
                          /\ \/ state0["last_seen_at"] = JNone
                             \/ ts[2] > state0["last_seen_at"][2]
                       THEN Put(state0, "last_seen_at", ts)
                       ELSE state0
             state2 ==
               CASE event_type = "ARTIFACT_SEEN" ->
                      ReduceArtifactSeen(state1, payload, event)
                 [] event_type = "ARTIFACT_OBSERVED" ->
                      ReduceArtifactObserved(state1, payload, event)
                 [] event_type = "FINGERPRINT_COMPUTED" ->
                      ReduceFingerprint(state1, payload)
                 [] event_type = "ARTIFACT_CONTENT_EXTRACTED" ->
                      ReduceExtraction(state1, payload)
                 [] event_type = "EXTRACTION_PERFORMED" ->
                      ReduceExtraction(state1, payload)
                 [] event_type = "CONFIDENCE_UPDATED" ->
                      ReduceConfidence(state1, payload, event)
                 [] OTHER -> state1
         IN Put(artifacts, artifact_id, state2)

\* project_relations: the body of the loop for one event
RelationsEvent(relations, event) ==
    IF TypeOf(event) # "RELATION_PROPOSED" THEN relations
    ELSE LET payload == PayloadOf(event)
             source == JGet(payload, "source_id")
             target == JGet(payload, "target_id")
             relation_type == JGet(payload, "relation_type")
             confidence == IF "confidence" \in DOMAIN event
                           THEN event["confidence"]
                           ELSE JGet(payload, "confidence")
         IN IF ~JTruthy(source) \/ ~JTruthy(target) \/ ~JTruthy(relation_type)
            THEN relations
            ELSE LET old == IF source[2] \in DOMAIN relations
                            THEN relations[source[2]] ELSE <<>>
                 IN Put(relations, source[2],
                        Append(old, [target_id |-> target,
                                     relation_type |-> relation_type,
                                     confidence |-> confidence,
                                     event_id |-> JGet(event, "event_id")]))

\* for tag in proposed_tags: tags[artifact_id].append(...), from tag i on
RECURSIVE AppendTags(_, _, _, _)
AppendTags(list, proposed, i, event) ==
    IF i > Len(proposed) THEN list
    ELSE AppendTags(
            Append(list, [tag |-> proposed[i],
                          confidence |->
                              IF "confidence" \in DOMAIN event
                              THEN event["confidence"]
                              ELSE JGet(PayloadOf(event), "confidence"),
                          event_id |-> JGet(event, "event_id")]),
            proposed, i + 1, event)

\* project_tags: the body of the loop for one event
TagsEvent(tags, event) ==
    IF TypeOf(event) # "TAGS_PROPOSED" THEN tags
    ELSE LET artifact_id == JGet(event, "artifact_id")
             payload == PayloadOf(event)
             proposed == IF "tags" \in DOMAIN payload
                         THEN payload["tags"][2] ELSE <<>>
         IN IF ~JTruthy(artifact_id) THEN tags
            ELSE LET old == IF artifact_id[2] \in DOMAIN tags
                            THEN tags[artifact_id[2]] ELSE <<>>
                 IN Put(tags, artifact_id[2],
                        AppendTags(old, proposed, 1, event))

\* project_conflicts: the body of the loop for one event
ConflictsEvent_Merge(conflicts, event) ==
    IF TypeOf(event) # "CONFLICT_DETECTED" THEN conflicts
    ELSE IF \E i \in DOMAIN conflicts :
              conflicts[i].conflict_id = JGet(event, "event_id")
    THEN conflicts
    ELSE LET payload == PayloadOf(event) IN
         Append(conflicts,
                [conflict_id |-> JGet(event, "event_id"),
                 artifact_ids |-> IF "artifact_ids" \in DOMAIN payload
                                  THEN payload["artifact_ids"] ELSE JList(<<>>),
                 conflict_type |-> JGet(payload, "conflict_type"),
                 description |-> JGet(payload, "description"),
                 detected_at |-> JGet(event, "ts")])
ConflictsEvent(conflicts, event) ==
    IF TypeOf(event) # "CONFLICT_DETECTED" THEN conflicts
    ELSE LET payload == PayloadOf(event) IN
         Append(conflicts,
                [conflict_id |-> JGet(event, "event_id"),
                 artifact_ids |-> IF "artifact_ids" \in DOMAIN payload
                                  THEN payload["artifact_ids"] ELSE JList(<<>>),
                 conflict_type |-> JGet(payload, "conflict_type"),
                 description |-> JGet(payload, "description"),
                 detected_at |-> JGet(event, "ts")])

\* for event in events: <body>, from event i on
RECURSIVE Reduce(_, _, _, _)
Reduce(Body(_, _), acc, events, i) ==
    IF i > Len(events) THEN acc
    ELSE Reduce(Body, Body(acc, events[i]), events, i + 1)

\* project_artifacts, project_relations, project_tags, project_conflicts
ProjectArtifacts(events) == Reduce(ArtifactsEvent, <<>>, events, 1)
ProjectRelations(events) == Reduce(RelationsEvent, <<>>, events, 1)
ProjectTags(events) == Reduce(TagsEvent, <<>>, events, 1)
ProjectConflicts(events) == Reduce(ConflictsEvent, <<>>, events, 1)

\* aggregate_state
AggregateState(events) ==
    [artifacts |-> ProjectArtifacts(events),
     relations |-> ProjectRelations(events),
     tags |-> ProjectTags(events),
     conflicts |-> ProjectConflicts(events)]

\* a dict event
DEvent(id, type, ts, fields, payload) ==
    [k \in {"event_id", "event_type", "ts", "actor", "payload"} \cup DOMAIN fields |->
        CASE k = "event_id" -> JStr(id)
          [] k = "event_type" -> JStr(type)
          [] k = "ts" -> JFloat(ts)
          [] k = "actor" -> WActor
          [] k = "payload" -> JDict(payload)
          [] OTHER -> fields[k]]

\* The dict events drawn: an artifact seen, its fingerprint with an earlier
\* ts, the artifact seen at another path, an event of a type no reducer
\* handles, a relation proposed and proposed again, two conflicts, tags.
ReducerPool ==
    { DEvent("d1", "ARTIFACT_SEEN", 2, [artifact_id |-> JStr("a1")],
             [artifact_id |-> JStr("a1"), locator |-> JStr("/x"),
              content_hash |-> JStr("h1")]),
      DEvent("d2", "FINGERPRINT_COMPUTED", 1, [artifact_id |-> JStr("a1")],
             [artifact_id |-> JStr("a1"), content_hash |-> JStr("h2")]),
      DEvent("d3", "ARTIFACT_SEEN", 1, <<>>,
             [artifact_id |-> JStr("a1"), path |-> JStr("/y")]),
      DEvent("d4", "HYPOTHESIS_NOTED", 3, [artifact_id |-> JStr("a2")],
             [hypothesis |-> JStr("generated")]),
      DEvent("d5", "RELATION_PROPOSED", 1, [confidence |-> JFloat(5)],
             [source_id |-> JStr("a1"), target_id |-> JStr("a2"),
              relation_type |-> JStr("imports")]),
      DEvent("d6", "RELATION_PROPOSED", 2, [confidence |-> JFloat(9)],
             [source_id |-> JStr("a1"), target_id |-> JStr("a2"),
              relation_type |-> JStr("imports")]),
      DEvent("d7", "CONFLICT_DETECTED", 2, <<>>,
             [artifact_ids |-> JList(<<"a1", "a2">>),
              conflict_type |-> JStr("hash"), description |-> JStr("d")]),
      DEvent("d8", "CONFLICT_DETECTED", 1, <<>>,
             [artifact_ids |-> JList(<<"a1">>), conflict_type |-> JStr("hash")]),
      DEvent("d9", "TAGS_PROPOSED", 1, [artifact_id |-> JStr("a1")],
             [artifact_id |-> JStr("a1"), tags |-> JList(<<"py", "cli">>)]) }

\* The Event objects drawn: an observation, an event of a type no projector
\* handles, a relation proposed again, two conflicts.
ReplayPool ==
    { e \in EventPool : e.event_id \in {"e01", "e13", "e16", "e17"} }
    \cup { Ev("e19", "ARTIFACT_DISAPPEARED", 3, <<"a1", "a3">>, NoPayload) }

\* the histories of at most MaxEvents events
Histories(pool) == UNION { [1..n -> pool] : n \in 0..MaxEvents }

\* a history for the reducers or a history for the engine
ReplayStart ==
    /\ \/ r_events \in Histories(ReducerPool) /\ p_events = <<>>
       \/ r_events = <<>> /\ p_events \in Histories(ReplayPool)
    /\ r_state = None
    /\ p_state = None

\* aggregate_state(events)
AggregateCall ==
    /\ r_state = None
    /\ r_state' = Some(AggregateState(r_events))
    /\ UNCHANGED <<r_events, p_events, p_state>>
    /\ UNCHANGED notReplayVars

\* engine = ProjectionEngine(); for event in events: engine.apply(event)
EngineReplay ==
    /\ p_state = None
    /\ p_state' = Some(ApplyFrom(NewEngine, p_events, 1))
    /\ UNCHANGED <<r_events, r_state, p_events>>
    /\ UNCHANGED notReplayVars

NextReplay ==
    \/ AggregateCall
    \/ EngineReplay

ReplayIdle ==
    /\ r_events = <<>>
    /\ r_state = None
    /\ p_events = <<>>
    /\ p_state = None

(***************************************************************************)
(* get_state() of the three projectors and what its caller can do with the *)
(* value (atlas/ledger/projection.py)                                      *)
(*                                                                         *)
(* An entry of a returned collection is <<"ref", id>>: the very object the *)
(* projector holds under that id (the artifact_id of a snapshot, the       *)
(* position of a relation or a conflict).  Until the next apply a          *)
(* projector creates and replaces no object, so an id names one object.    *)
(* A collection returned before an apply is not followed further.          *)
(***************************************************************************)
MaxApplied == 2    \* events applied to the engine

Projectors == {"artifacts", "relations", "conflicts"}

\* the collection a projector holds: id -> object
Held(eng, which) ==
    CASE which = "artifacts" -> eng.artifacts
      [] which = "relations" -> eng.relations.relations
      [] which = "conflicts" -> eng.conflicts

\* dict.copy() / list.copy(): a new collection of the same objects
ShallowCopy(collection) == [k \in DOMAIN collection |-> <<"ref", k>>]

\* ArtifactProjector.get_state, RelationProjector.get_state,
\* ConflictProjector.get_state
ProjectorGetState(eng, which) == ShallowCopy(Held(eng, which))

\* what a returned collection holds: per entry, the object it refers to
Deref(eng, which, items) ==
    [k \in DOMAIN items |-> Held(eng, which)[items[k][2]]]

\* obj.<field> = value on the object with this id
SetAttr(eng, which, id, value) ==
    CASE which = "artifacts" ->
           [eng EXCEPT !.artifacts[id].confidence_score = value]
      [] which = "relations" ->
           [eng EXCEPT !.relations.relations[id].confidence_score = value]
      [] which = "conflicts" ->
           [eng EXCEPT !.conflicts[id].description = value]

ViewStart ==
    /\ g_engine = NewEngine
    /\ g_applied = 0
    /\ g_view = None
    /\ g_returned = None

\* engine.apply(event)
ViewApply(e) ==
    /\ g_applied < MaxApplied
    /\ g_engine' = EngineApply(g_engine, e)
    /\ g_applied' = g_applied + 1
    /\ g_view' = None
    /\ g_returned' = None
    /\ UNCHANGED notViewVars

\* view = engine.<projector>.get_state()
GetState(which) ==
    /\ g_view' = Some([of |-> which, items |-> ProjectorGetState(g_engine, which)])
    /\ g_returned' =
           Some(Deref(g_engine, which, ProjectorGetState(g_engine, which)))
    /\ UNCHANGED <<g_engine, g_applied>>
    /\ UNCHANGED notViewVars

\* the caller removes an entry of the returned dict: del view[artifact_id]
CallerDeletes(aid) ==
    /\ g_view # None
    /\ g_view[1].of = "artifacts"
    /\ aid \in DOMAIN g_view[1].items
    /\ g_view' = Some([g_view[1] EXCEPT !.items = Del(@, aid)])
    /\ UNCHANGED <<g_engine, g_applied, g_returned>>
    /\ UNCHANGED notViewVars

\* the caller removes the last entry of the returned list: view.pop()
CallerPops ==
    /\ g_view # None
    /\ g_view[1].of # "artifacts"
    /\ g_view[1].items # <<>>
    /\ g_view' = Some([g_view[1] EXCEPT !.items = Del(@, Len(@))])
    /\ UNCHANGED <<g_engine, g_applied, g_returned>>
    /\ UNCHANGED notViewVars

\* the caller assigns to an attribute of a snapshot of the returned dict:
\* view[artifact_id].confidence_score = ...
CallerSetsSnapshot(aid) ==
    /\ g_view # None
    /\ g_view[1].of = "artifacts"
    /\ aid \in DOMAIN g_view[1].items
    /\ g_engine' = SetAttr(g_engine, "artifacts", g_view[1].items[aid][2],
                           Some("edited"))
    /\ UNCHANGED <<g_applied, g_view, g_returned>>
    /\ UNCHANGED notViewVars

\* the caller assigns to an attribute of a relation or a conflict of the
\* returned list: view[i].confidence_score = ..., view[i].description = ...
CallerSetsItem(i) ==
    /\ g_view # None
    /\ g_view[1].of # "artifacts"
    /\ i \in DOMAIN g_view[1].items
    /\ g_engine' = SetAttr(g_engine, g_view[1].of, g_view[1].items[i][2],
                           Some("edited"))
    /\ UNCHANGED <<g_applied, g_view, g_returned>>
    /\ UNCHANGED notViewVars

\* the artifact ids of the events drawn
ViewArtifactIds == {"a1", "a2", "a3"}

NextView ==
    \/ \E e \in ReplayPool : ViewApply(e)
    \/ \E which \in Projectors : GetState(which)
    \/ \E aid \in ViewArtifactIds : CallerDeletes(aid)
    \/ CallerPops
    \/ \E aid \in ViewArtifactIds : CallerSetsSnapshot(aid)
    \/ \E i \in 1..MaxApplied : CallerSetsItem(i)

ViewIdle ==
    /\ g_engine = NewEngine
    /\ g_applied = 0
    /\ g_view = None
    /\ g_returned = None

(***************************************************************************)
(* ConfidenceEngine (atlas/confidence.py)                                  *)
(*                                                                         *)
(* A confidence is a fixed-point number counted in units of 1/Unit, and a  *)
(* division rounds down.  Strengths and volatilities are counted in        *)
(* tenths, times in seconds.  The event ids _make_event_id returns are     *)
(* 1, 2, ...; the empty event id "" is 0.                                  *)
(***************************************************************************)
Unit == 10000        \* the confidence 1.0
MaxSteps == 2        \* calls of the engine in a row
MaxRecurring == 2    \* recurring proposals
MaxHalfLives == 2    \* half-lives since the last observation
MaxFlags == 3        \* ambiguity flags of an assessment

Min(a, b) == IF a <= b THEN a ELSE b
Abs(a) == IF a >= 0 THEN a ELSE 0 - a

ConfFloor == Unit \div 20        \* 0.05
Negligible == Unit \div 1000     \* 0.001
Tenth == Unit \div 10            \* 0.1

\* what time.time() returns during the calls
TimeTime == 1440 * 3600

ScoresDrawn ==
    {0, Unit \div 25, ConfFloor, 3 * Tenth, 6 * Tenth, Unit}
StrengthsDrawn == {0, 5, 10}
VolatilitiesDrawn == {0, 5, 10}
TriggersDrawn == <<"w1">>

\* half_life = 720 - (volatility * 696), in hours
HalfLife(volatility) == 720 - (volatility * 696) \div 10

\* the last_observed_ts drawn: a whole number of half-lives ago, or in the
\* future of the clock
LastObservedDrawn(volatility) ==
    { TimeTime - k * HalfLife(volatility) * 3600 : k \in (0 - 1)..MaxHalfLives }

\* age_hours = (now - last_observed_ts) / 3600
AgeHours(time_now, last_observed_ts) ==
    (time_now - last_observed_ts) \div 3600

\* current_confidence * 0.5 ** (age_hours / half_life), for an age that is
\* a whole number of half-lives
Decayed(confidence, age_hours, half_life) ==
    confidence \div (2 ^ (age_hours \div half_life))

\* the engine's writer and what _make_event_id has handed out
NewWorld(hasWriter) == [writer |-> hasWriter, log |-> <<>>, ids |-> 0]

\* ConfidenceEngine._emit_confidence_updated with the new and the old
\* confidence exchanged
EmitConfidenceUpdated_Swapped(w, artifact_id, old, new, reason, triggers) ==
    IF ~w.writer THEN [eid |-> 0, world |-> w]
    ELSE LET event_id == w.ids + 1
             event == [event_id |-> event_id,
                       event_type |-> "CONFIDENCE_UPDATED",
                       actor |-> "ConfidenceEngine",
                       artifact_id |-> artifact_id,
                       confidence |-> old,
                       evidence_refs |-> triggers,
                       payload |-> [old_confidence |-> new,
                                    new_confidence |-> old,
                                    delta |-> old - new,
                                    reason |-> reason]]
         IN  [eid |-> event_id,
              world |-> [w EXCEPT !.ids = event_id, !.log = Append(@, event)]]

\* ConfidenceEngine._emit_confidence_updated
EmitConfidenceUpdated(w, artifact_id, old, new, reason, triggers) ==
    IF ~w.writer THEN [eid |-> 0, world |-> w]
    ELSE LET event_id == w.ids + 1
             event == [event_id |-> event_id,
                       event_type |-> "CONFIDENCE_UPDATED",
                       actor |-> "ConfidenceEngine",
                       artifact_id |-> artifact_id,
                       confidence |-> new,
                       evidence_refs |-> triggers,
                       payload |-> [old_confidence |-> old,
                                    new_confidence |-> new,
                                    delta |-> new - old,
                                    reason |-> reason]]
         IN  [eid |-> event_id,
              world |-> [w EXCEPT !.ids = event_id, !.log = Append(@, event)]]

\* return new_confidence, event_id
Stepped(new, emitted) ==
    [score |-> new, eid |-> emitted.eid, world |-> emitted.world]

\* ConfidenceEngine.reinforce:
\* factor = 0.1 / (1 + count * 0.5); boost = (1.0 - current) * factor
ReinforceCall(w, artifact_id, current, count, triggers) ==
    LET boost == (Unit - current) \div (10 + 5 * count)
        new == Min(Unit, current + boost)
    IN  Stepped(new, EmitConfidenceUpdated(w, artifact_id, current, new,
                                           "Reinforced", triggers))

\* ConfidenceEngine.reduce_on_contradiction:
\* reduction = current * strength * 0.5
ReduceCall(w, artifact_id, current, strength, triggers) ==
    LET reduction == (current * strength) \div 20
        new == Max(ConfFloor, current - reduction)
    IN  Stepped(new, EmitConfidenceUpdated(w, artifact_id, current, new,
                                           "Reduced due to contradiction",
                                           triggers))

\* ConfidenceEngine.apply_freshness_decay
DecayCall(w, artifact_id, current, last_observed_ts, volatility, triggers) ==
    LET age_hours == AgeHours(TimeTime, last_observed_ts)
        half_life == HalfLife(volatility)
        new == Max(ConfFloor, Decayed(current, age_hours, half_life))
    IN  IF age_hours <= 0
        THEN [score |-> current, eid |-> 0, world |-> w]
        ELSE IF Abs(new - current) < Negligible
        THEN [score |-> current, eid |-> 0, world |-> w]
        ELSE Stepped(new, EmitConfidenceUpdated(w, artifact_id, current, new,
                                                "Freshness decay", triggers))

\* if eid: event_ids.append(eid)
AppendId(event_ids, eid) ==
    IF eid # 0 THEN Append(event_ids, eid) ELSE event_ids

\* evolve_confidence that reinforces before it reduces
EvolveCall_ReinforceFirst(w, artifact_id, current, ts, count, strength, volatility, triggers) ==
    LET d == DecayCall(w, artifact_id, current, ts, volatility,
                       triggers)
        r == IF count > 0
             THEN ReinforceCall(d.world, artifact_id, d.score, count, triggers)
             ELSE [d EXCEPT !.eid = 0]
        c == IF strength > 0
             THEN ReduceCall(r.world, artifact_id, r.score, strength, triggers)
             ELSE [r EXCEPT !.eid = 0]
    IN  [score |-> c.score,
         event_ids |-> AppendId(AppendId(AppendId(<<>>, d.eid), r.eid), c.eid),
         world |-> c.world]

\* ConfidenceEngine.evolve_confidence
EvolveCall(w, artifact_id, current, ts, count, strength, volatility, triggers) ==
    LET d == DecayCall(w, artifact_id, current, ts, volatility,
                       triggers)
        c == IF strength > 0
             THEN ReduceCall(d.world, artifact_id, d.score, strength, triggers)
             ELSE [d EXCEPT !.eid = 0]
        r == IF count > 0
             THEN ReinforceCall(c.world, artifact_id, c.score, count, triggers)
             ELSE [c EXCEPT !.eid = 0]
    IN  [score |-> r.score,
         event_ids |-> AppendId(AppendId(AppendId(<<>>, d.eid), c.eid), r.eid),
         world |-> r.world]

\* ConfidenceAssessment.effective_score: penalty = len(flags) * 0.1
EffectiveScore(score, flags) == Max(0, score - flags * Tenth)

\* the engine as the caller sees it
World == [writer |-> c_writer, log |-> c_log, ids |-> c_ids]

NoConfCall ==
    [op |-> "none", input |-> 0, count |-> 0, strength |-> 0, volatility |-> 0,
     last_observed_ts |-> 0, flags |-> 0, score |-> 0, event_ids |-> <<>>,
     before |-> 0]

\* ConfidenceEngine(writer) or ConfidenceEngine(), and the confidence the
\* caller starts from
ConfStart ==
    /\ c_writer \in BOOLEAN
    /\ c_score \in ScoresDrawn
    /\ c_log = <<>>
    /\ c_ids = 0
    /\ c_last = NoConfCall
    /\ c_steps = 0

\* the caller keeps the confidence a call returned
Returned(call, result, ids) ==
    /\ c_steps' = c_steps + 1
    /\ c_score' = result.score
    /\ c_log' = result.world.log
    /\ c_ids' = result.world.ids
    /\ c_last' = [call EXCEPT !.input = c_score, !.score = result.score,
                              !.event_ids = ids, !.before = Len(c_log)]
    /\ UNCHANGED c_writer
    /\ UNCHANGED notConfVars

\* score, eid = engine.reinforce("a1", score, count, triggers)
Reinforce(count) ==
    /\ c_steps < MaxSteps
    /\ LET result == ReinforceCall(World, "a1", c_score, count, TriggersDrawn)
       IN  Returned([NoConfCall EXCEPT !.op = "reinforce", !.count = count],
                    result, AppendId(<<>>, result.eid))

\* score, eid = engine.reduce_on_contradiction("a1", score, strength, triggers)
ReduceOnContradiction(strength) ==
    /\ c_steps < MaxSteps
    /\ LET result == ReduceCall(World, "a1", c_score, strength, TriggersDrawn)
       IN  Returned([NoConfCall EXCEPT !.op = "reduce", !.strength = strength],
                    result, AppendId(<<>>, result.eid))

\* score, eid = engine.apply_freshness_decay("a1", score, ts, volatility,
\*                                           triggers)
ApplyFreshnessDecay(last_observed_ts, volatility) ==
    /\ c_steps < MaxSteps
    /\ LET result == DecayCall(World, "a1", c_score, last_observed_ts,
                               volatility, TriggersDrawn)
       IN  Returned([NoConfCall EXCEPT !.op = "decay", !.volatility = volatility,
                                  !.last_observed_ts = last_observed_ts],
                    result, AppendId(<<>>, result.eid))

\* score, event_ids = engine.evolve_confidence("a1", score, ts, count,
\*                                             strength, volatility, triggers)
EvolveConfidence(last_observed_ts, count, strength, volatility) ==
    /\ c_steps = 0
    /\ LET result == EvolveCall(World, "a1", c_score, last_observed_ts, count,
                                strength, volatility, TriggersDrawn)
       IN  Returned([NoConfCall EXCEPT !.op = "evolve", !.count = count,
                                  !.strength = strength,
                                  !.volatility = volatility,
                                  !.last_observed_ts = last_observed_ts],
                    result, result.event_ids)

\* ConfidenceAssessment(score=score, ambiguity_flags=flags).effective_score
Assess(flags) ==
    /\ c_steps < MaxSteps
    /\ c_steps' = c_steps + 1
    /\ c_last' = [NoConfCall EXCEPT !.op = "effective_score", !.input = c_score,
                               !.flags = flags,
                               !.score = EffectiveScore(c_score, flags),
                               !.before = Len(c_log)]
    /\ UNCHANGED <<c_writer, c_score, c_log, c_ids>>
    /\ UNCHANGED notConfVars

\* the three evolution steps and effective_score, called in any order
NextConf ==
    \/ \E count \in 0..MaxRecurring : Reinforce(count)
    \/ \E strength \in StrengthsDrawn : ReduceOnContradiction(strength)
    \/ \E volatility \in VolatilitiesDrawn :
          \E ts \in LastObservedDrawn(volatility) :
              ApplyFreshnessDecay(ts, volatility)
    \/ \E flags \in 0..MaxFlags : Assess(flags)

\* evolve_confidence, called once on the confidence the caller starts from
NextEvolve ==
    \E volatility \in VolatilitiesDrawn :
        \E ts \in LastObservedDrawn(volatility) :
            \E count \in 0..MaxRecurring :
                \E strength \in StrengthsDrawn :
                    EvolveConfidence(ts, count, strength, volatility)

ConfIdle ==
    /\ c_writer = FALSE
    /\ c_score = 0
    /\ c_log = <<>>
    /\ c_ids = 0
    /\ c_last = NoConfCall
    /\ c_steps = 0

(***************************************************************************)
(* FilesystemEye.observe (atlas/eyes/filesystem.py)                        *)
(*                                                                         *)
(* The tree is the one of tests/test_filesystem_eye.py with any of its     *)
(* four files present; a file of 100 bytes has size 1.  The budgets drawn  *)
(* set no time limit, every directory can be read and every file can be    *)
(* stat'ed.                                                                *)
(***************************************************************************)
MaxFileLimit == 2     \* the largest max_files drawn
MaxDepthLimit == 2    \* the largest max_depth drawn
MaxByteLimit == 2     \* the max_bytes drawn

\* is_file(), len(path.relative_to(root).parts) and stat().st_size of the
\* entries of the tree
EyeTree ==
    [n \in {"file1.txt", "file2.txt", "subdir", "subdir/file3.txt",
            "subdir/deep", "subdir/deep/file4.txt"} |->
        CASE n \in {"file1.txt", "file2.txt"} ->
                 [is_file |-> TRUE, parts |-> 1, size |-> 1]
          [] n = "subdir" -> [is_file |-> FALSE, parts |-> 1, size |-> 0]
          [] n = "subdir/file3.txt" ->
                 [is_file |-> TRUE, parts |-> 2, size |-> 1]
          [] n = "subdir/deep" -> [is_file |-> FALSE, parts |-> 2, size |-> 0]
          [] n = "subdir/deep/file4.txt" ->
                 [is_file |-> TRUE, parts |-> 3, size |-> 1]]

EyeFiles == { n \in DOMAIN EyeTree : EyeTree[n].is_file }

\* two orders in which rglob can yield the entries
WalkOrders ==
    { <<"file1.txt", "file2.txt", "subdir", "subdir/file3.txt",
        "subdir/deep", "subdir/deep/file4.txt">>,
      <<"subdir", "subdir/deep", "subdir/deep/file4.txt",
        "subdir/file3.txt", "file2.txt", "file1.txt">> }

\* the walk of the tree that holds the files `present`
WalkOf(order, present) ==
    LET Exists(n) == n \in present \/ ~EyeTree[n].is_file
    IN  SelectSeq(order, Exists)

\* SimpleBudget(max_files=.., max_bytes=.., max_depth=..)
EyeBudgets ==
    [max_files : {None} \cup { Some(n) : n \in 0..MaxFileLimit },
     max_bytes : {None, Some(MaxByteLimit)},
     max_depth : {None} \cup { Some(n) : n \in 0..MaxDepthLimit }]

\* getattr(budget, name, None) or float("inf"): None and 0 give no limit
OrInf(value) == IF value = None \/ value[1] = 0 THEN None ELSE value

\* x >= limit and x > limit, for a limit that may be float("inf")
AtLeast(x, limit) == limit # None /\ x >= limit[1]
Exceeds(x, limit) == limit # None /\ x > limit[1]

\* FilesystemEye._get_depth: len(rel.parts) - 1
GetDepth(name) == EyeTree[name].parts - 1

\* FilesystemEye._emit_artifact_seen
ArtifactSeen(name, size) ==
    [event_type |-> "ARTIFACT_SEEN",
     payload |-> [path |-> name, size |-> size]]

\* FilesystemEye._emit_access_limitation
AccessLimitation(limit_type) ==
    [event_type |-> "ACCESS_LIMITATION_NOTED",
     payload |-> [path |-> "", limit_type |-> limit_type]]

\* eye.observe(root, budget) is called
EyeStart ==
    /\ \E order \in WalkOrders : \E present \in SUBSET EyeFiles :
           y_walk = WalkOf(order, present)
    /\ y_budget \in EyeBudgets
    /\ y_pos = 1
    /\ y_files_seen = 0
    /\ y_bytes_accounted = 0
    /\ y_stopped_reason = None
    /\ y_events = <<>>
    /\ y_pc = "walking"

AtEntry == y_pc = "walking" /\ y_pos <= Len(y_walk)
Entry == y_walk[y_pos]

\* if not path.is_file(): continue
SkipNonFile ==
    /\ AtEntry
    /\ ~EyeTree[Entry].is_file
    /\ y_pos' = y_pos + 1
    /\ UNCHANGED <<y_walk, y_budget, y_files_seen, y_bytes_accounted,
                   y_stopped_reason, y_events, y_pc>>
    /\ UNCHANGED notEyeVars

\* if files_seen >= max_files: emit the limitation and break
StopFiles ==
    /\ AtEntry
    /\ EyeTree[Entry].is_file
    /\ AtLeast(y_files_seen, OrInf(y_budget.max_files))
    /\ y_events' = Append(y_events, AccessLimitation("max_files"))
    /\ y_stopped_reason' = Some("file_budget_exceeded")
    /\ y_pc' = "returned"
    /\ UNCHANGED <<y_walk, y_budget, y_pos, y_files_seen, y_bytes_accounted>>
    /\ UNCHANGED notEyeVars

\* if depth > max_depth: continue
SkipDeep ==
    /\ AtEntry
    /\ EyeTree[Entry].is_file
    /\ ~AtLeast(y_files_seen, OrInf(y_budget.max_files))
    /\ Exceeds(GetDepth(Entry), OrInf(y_budget.max_depth))
    /\ y_pos' = y_pos + 1
    /\ UNCHANGED <<y_walk, y_budget, y_files_seen, y_bytes_accounted,
                   y_stopped_reason, y_events, y_pc>>
    /\ UNCHANGED notEyeVars

\* if bytes_accounted + size > max_bytes: emit the limitation and break
StopBytes ==
    /\ AtEntry
    /\ EyeTree[Entry].is_file
    /\ ~AtLeast(y_files_seen, OrInf(y_budget.max_files))
    /\ ~Exceeds(GetDepth(Entry), OrInf(y_budget.max_depth))
    /\ Exceeds(y_bytes_accounted + EyeTree[Entry].size,
               OrInf(y_budget.max_bytes))
    /\ y_events' = Append(y_events, AccessLimitation("max_bytes"))
    /\ y_stopped_reason' = Some("byte_budget_exceeded")
    /\ y_pc' = "returned"
    /\ UNCHANGED <<y_walk, y_budget, y_pos, y_files_seen, y_bytes_accounted>>
    /\ UNCHANGED notEyeVars

\* the file is within every budget: emit ARTIFACT_SEEN, count it
ObserveFile ==
    /\ AtEntry
    /\ EyeTree[Entry].is_file
    /\ ~AtLeast(y_files_seen, OrInf(y_budget.max_files))
    /\ ~Exceeds(GetDepth(Entry), OrInf(y_budget.max_depth))
    /\ ~Exceeds(y_bytes_accounted + EyeTree[Entry].size,
                OrInf(y_budget.max_bytes))
    /\ y_events' = Append(y_events, ArtifactSeen(Entry, EyeTree[Entry].size))
    /\ y_files_seen' = y_files_seen + 1
    /\ y_bytes_accounted' = y_bytes_accounted + EyeTree[Entry].size
    /\ y_pos' = y_pos + 1
    /\ UNCHANGED <<y_walk, y_budget, y_stopped_reason, y_pc>>
    /\ UNCHANGED notEyeVars

\* the walk is over: observe returns with stopped_reason None
WalkEnds ==
    /\ y_pc = "walking"
    /\ y_pos > Len(y_walk)
    /\ y_pc' = "returned"
    /\ UNCHANGED <<y_walk, y_budget, y_pos, y_files_seen, y_bytes_accounted,
                   y_stopped_reason, y_events>>
    /\ UNCHANGED notEyeVars

NextEye ==
    \/ SkipNonFile
    \/ StopFiles
    \/ SkipDeep
    \/ StopBytes
    \/ ObserveFile
    \/ WalkEnds

EyeIdle ==
    /\ y_walk = <<>>
    /\ y_budget = [max_files |-> None, max_bytes |-> None, max_depth |-> None]
    /\ y_pos = 1
    /\ y_files_seen = 0
    /\ y_bytes_accounted = 0
    /\ y_stopped_reason = None
    /\ y_events = <<>>
    /\ y_pc = "returned"

(***************************************************************************)
(* read_snapshot (atlas/state/snapshots.py)                                *)
(*                                                                         *)
(* A line of the file is <<kind, artifact_id, revision>>: "record" is the  *)
(* json.dumps text of an artifact state (artifact_id "" stands for a state *)
(* without artifact_id), "cut" a proper prefix of such a text, "text"      *)
(* words that are not JSON, "blank" spaces only, "scalar" a JSON value     *)
(* that is not an object (null, 42, [1]) and "bytes" bytes that are not    *)
(* UTF-8.                                                                  *)
(***************************************************************************)
MaxLines == 3    \* lines of a snapshot file

SnapshotLines ==
    { <<"record", "a1", 1>>, <<"record", "a1", 2>>, <<"record", "a2", 1>>,
      <<"record", "", 1>>, <<"cut", "a1", 1>>, <<"text", "", 0>>,
      <<"blank", "", 0>>, <<"scalar", "", 0>>, <<"bytes", "", 0>> }

\* for line in f: the text decoder raises on bytes that are not UTF-8
Decodes(line) == line[1] # "bytes"

\* line.strip()
Strip(line) == IF line[1] = "blank" THEN "" ELSE line

\* json.loads(line): what it returns, or JSONDecodeError
LoadsRaises(line) == line[1] \in {"cut", "text"}
Loads(line) ==
    IF line[1] = "record"
    THEN <<"dict", IF line[2] = ""
                   THEN [revision |-> line[3]]
                   ELSE [artifact_id |-> line[2], revision |-> line[3]]>>
    ELSE <<"scalar", <<>>>>

\* state.get("artifact_id")
GetArtifactId(state) ==
    IF "artifact_id" \in DOMAIN state THEN state["artifact_id"] ELSE ""

\* the loop of read_snapshot over the lines from position i on
RECURSIVE ReadFrom(_, _, _)
ReadFrom(lines, i, artifacts) ==
    IF i > Len(lines) THEN [raised |-> "", artifacts |-> artifacts]
    ELSE IF ~Decodes(lines[i])
    THEN [raised |-> "UnicodeDecodeError", artifacts |-> <<>>]
    ELSE IF Strip(lines[i]) = "" THEN ReadFrom(lines, i + 1, artifacts)
    ELSE IF LoadsRaises(Strip(lines[i]))
    THEN ReadFrom(lines, i + 1, artifacts)
    ELSE LET state == Loads(Strip(lines[i]))
         IN  IF state[1] # "dict"
             THEN [raised |-> "AttributeError", artifacts |-> <<>>]
             ELSE IF GetArtifactId(state[2]) # ""
             THEN ReadFrom(lines, i + 1,
                           Put(artifacts, GetArtifactId(state[2]), state[2]))
             ELSE ReadFrom(lines, i + 1, artifacts)

\* read_snapshot(path)
ReadSnapshot(file) ==
    IF file = None THEN [raised |-> "", artifacts |-> <<>>]
    ELSE ReadFrom(file[1], 1, <<>>)

\* a snapshot file, or none
ReadStart ==
    /\ d_file \in {None} \cup
           { Some(f) : f \in UNION { [1..n -> SnapshotLines] :
                                        n \in 0..MaxLines } }
    /\ d_result = None

\* read_snapshot(path) is called
ReadSnapshotCall ==
    /\ d_result = None
    /\ d_result' = Some(ReadSnapshot(d_file))
    /\ UNCHANGED d_file
    /\ UNCHANGED notReadVars

NextRead == ReadSnapshotCall

ReadIdle ==
    /\ d_file = None
    /\ d_result = None

(***************************************************************************)
(* Threads sharing one EventWriter (atlas/ledger/writer.py)                *)
(*                                                                         *)
(* The events of the calls carry event_id 1, 2, ... in call order.  A line *)
(* reaches the segment in two pieces, <<id, "head">> and <<id, "tail">>    *)
(* (the tail ends with the newline): flush() hands the buffer to the       *)
(* operating system in as many write calls as it takes, and a file opened  *)
(* with "a" puts each of them at the end of the file at that moment.       *)
(***************************************************************************)
MaxWrites == 3    \* append calls of all threads together

AppendSection == {"locked", "opened", "written", "flushed", "synced"}

\* json.dumps(event) + "\n", as the pieces flush() writes
Pieces(line) == << <<line, "head">>, <<line, "tail">> >>

\* threading.Lock: acquire goes through when no thread holds the lock
CanAcquire_Unlocked(holder) == TRUE
CanAcquire(holder) == holder = None

\* EventWriter(ledger_dir): no thread is in append, the directory is empty
LockStart ==
    /\ k_lock = None
    /\ k_pc = [t \in Threads |-> "idle"]
    /\ k_line = [t \in Threads |-> 0]
    /\ k_buf = [t \in Threads |-> <<>>]
    /\ k_path = [t \in Threads |-> 0]
    /\ k_files = [d \in 1..MaxDay |-> <<>>]
    /\ k_day = 1
    /\ k_calls = 0
    /\ k_returned = {}

\* append(event) with an event that fails a check: ValueError
ThreadAppendRaises(t) ==
    /\ k_pc[t] = "idle"
    /\ k_calls < MaxWrites
    /\ k_calls' = k_calls + 1
    /\ UNCHANGED <<k_lock, k_pc, k_line, k_buf, k_path, k_files, k_day,
                   k_returned>>
    /\ UNCHANGED notLockVars

\* append(event) up to line = json.dumps(event)
ThreadDumps(t) ==
    /\ k_pc[t] = "idle"
    /\ k_calls < MaxWrites
    /\ k_calls' = k_calls + 1
    /\ k_line' = [k_line EXCEPT ![t] = k_calls + 1]
    /\ k_pc' = [k_pc EXCEPT ![t] = "dumped"]
    /\ UNCHANGED <<k_lock, k_buf, k_path, k_files, k_day, k_returned>>
    /\ UNCHANGED notLockVars

\* with self._lock: (entry)
ThreadAcquires(t) ==
    /\ k_pc[t] = "dumped"
    /\ CanAcquire(k_lock)
    /\ k_lock' = Some(t)
    /\ k_pc' = [k_pc EXCEPT ![t] = "locked"]
    /\ UNCHANGED <<k_line, k_buf, k_path, k_files, k_day, k_calls,
                   k_returned>>
    /\ UNCHANGED notLockVars

\* path = self._event_file(); open(path, "a")
ThreadOpens(t) ==
    /\ k_pc[t] = "locked"
    /\ k_path' = [k_path EXCEPT ![t] = k_day]
    /\ k_buf' = [k_buf EXCEPT ![t] = <<>>]
    /\ k_pc' = [k_pc EXCEPT ![t] = "opened"]
    /\ UNCHANGED <<k_lock, k_line, k_files, k_day, k_calls, k_returned>>
    /\ UNCHANGED notLockVars

\* f.write(line + "\n")
ThreadWrites(t) ==
    /\ k_pc[t] = "opened"
    /\ k_buf' = [k_buf EXCEPT ![t] = k_buf[t] \o Pieces(k_line[t])]
    /\ k_pc' = [k_pc EXCEPT ![t] = "written"]
    /\ UNCHANGED <<k_lock, k_line, k_path, k_files, k_day, k_calls,
                   k_returned>>
    /\ UNCHANGED notLockVars

\* f.flush(): the next piece of the buffer goes to the end of the segment
ThreadFlushes(t) ==
    /\ k_pc[t] = "written"
    /\ k_buf[t] # <<>>
    /\ k_files' = [k_files EXCEPT
                      ![k_path[t]] = Append(k_files[k_path[t]], Head(k_buf[t]))]
    /\ k_buf' = [k_buf EXCEPT ![t] = Tail(k_buf[t])]
    /\ k_pc' = [k_pc EXCEPT
                   ![t] = IF Tail(k_buf[t]) = <<>> THEN "flushed" ELSE "written"]
    /\ UNCHANGED <<k_lock, k_line, k_path, k_day, k_calls, k_returned>>
    /\ UNCHANGED notLockVars

\* os.fsync(f.fileno())
ThreadFsyncs(t) ==
    /\ k_pc[t] = "flushed"
    /\ k_pc' = [k_pc EXCEPT ![t] = "synced"]
    /\ UNCHANGED <<k_lock, k_line, k_buf, k_path, k_files, k_day, k_calls,
                   k_returned>>
    /\ UNCHANGED notLockVars

\* the file is closed, the lock released and append returns
ThreadReturns(t) ==
    /\ k_pc[t] = "synced"
    /\ k_lock' = None
    /\ k_pc' = [k_pc EXCEPT ![t] = "idle"]
    /\ k_returned' = k_returned \cup {k_line[t]}
    /\ k_line' = [k_line EXCEPT ![t] = 0]
    /\ k_path' = [k_path EXCEPT ![t] = 0]
    /\ UNCHANGED <<k_buf, k_files, k_day, k_calls>>
    /\ UNCHANGED notLockVars

\* the UTC date changes
Midnight ==
    /\ k_day < MaxDay
    /\ k_day' = k_day + 1
    /\ UNCHANGED <<k_lock, k_pc, k_line, k_buf, k_path, k_files, k_calls,
                   k_returned>>
    /\ UNCHANGED notLockVars

NextLock ==
    \/ \E t \in Threads : ThreadAppendRaises(t)
    \/ \E t \in Threads : ThreadDumps(t)
    \/ \E t \in Threads : ThreadAcquires(t)
    \/ \E t \in Threads : ThreadOpens(t)
    \/ \E t \in Threads : ThreadWrites(t)
    \/ \E t \in Threads : ThreadFlushes(t)
    \/ \E t \in Threads : ThreadFsyncs(t)
    \/ \E t \in Threads : ThreadReturns(t)
    \/ Midnight

LockIdle == LockStart

(***************************************************************************)
(* InMemoryLedger and Ledger given the same calls                          *)
(* (atlas/ledger/__init__.py)                                              *)
(*                                                                         *)
(* One caller makes each call on an InMemoryLedger and on a Ledger whose   *)
(* database started empty.  What a call did is [raised, value]: the name   *)
(* of the exception ("" when it returned) and the value returned.  The     *)
(* session_id filter is left out: the events drawn carry no session.       *)
(***************************************************************************)
MaxTwinAppends == 2    \* append calls made on each of the two stores

\* The events appended: timestamps against append order, no, one and two
\* artifact references, and one event that names an artifact twice.
TwinPool ==
    { Ev("e1", "ARTIFACT_OBSERVED", 2, <<"a1">>, NoPayload),
      Ev("e2", "ARTIFACT_CHANGED", 1, <<"a1", "a2">>, NoPayload),
      Ev("e3", "SESSION_STARTED", 2, <<>>, NoPayload),
      Ev("e4", "ARTIFACT_OBSERVED", 1, <<"a2", "a2">>, NoPayload) }

TwinEventIds == {"e1", "e2", "e3", "e4", "e9"}
TwinTimes == {None, Some(1), Some(2)}
TwinTypeSets ==
    {None, Some({}), Some({"ARTIFACT_OBSERVED"}),
     Some({"ARTIFACT_CHANGED", "SESSION_STARTED"})}
TwinTypes == {None, Some("ARTIFACT_OBSERVED"), Some("SESSION_ENDED")}
TwinArtifacts == {None, Some("a1"), Some("a2"), Some("a3")}

Returns(value) == [raised |-> "", value |-> value]
Raises(name) == [raised |-> name, value |-> 0]

\* ---- InMemoryLedger ----

\* InMemoryLedger()
MemNew == [events |-> <<>>, by_id |-> <<>>, by_artifact |-> <<>>]

\* InMemoryLedger.append: the store afterwards and the sequence returned
MemAppendStore(m, event) ==
    [events |-> Append(m.events, event),
     by_id |-> Put(m.by_id, event.event_id, event),
     by_artifact |-> MemIndex(m.by_artifact, event, 1)]
MemAppendResult(m, event) == Returns(Len(m.events) + 1)

\* InMemoryLedger.get_event
MemGetEvent(m, event_id) ==
    Returns(IF event_id \in DOMAIN m.by_id THEN Some(m.by_id[event_id])
            ELSE None)

\* the tests of the loop of InMemoryLedger.iter_events: `if since and ...`,
\* `if until and ...`, `if event_types and ...` (an empty set is false)
MemKeeps(event, since, until, event_types) ==
    /\ ~(since # None /\ event.timestamp < since[1])
    /\ ~(until # None /\ event.timestamp > until[1])
    /\ ~(event_types # None /\ event_types[1] # {}
           /\ event.event_type \notin event_types[1])

\* InMemoryLedger.iter_events consumed to its end
MemIterEvents(m, since, until, event_types, artifact_id) ==
    Returns(SelectSeq(IF artifact_id # None
                      THEN MemIterArtifact(m.by_artifact, artifact_id[1])
                      ELSE m.events,
                      LAMBDA e : MemKeeps(e, since, until, event_types)))

\* InMemoryLedger.events_for_artifact
MemEventsForArtifact(m, artifact_id) ==
    Returns(MemIterArtifact(m.by_artifact, artifact_id))

\* InMemoryLedger.count(event_type=...)
MemCountOf(m, event_type) ==
    Returns(IF event_type # None
            THEN Len(SelectSeq(m.events,
                               LAMBDA e : e.event_type = event_type[1]))
            ELSE MemCount(m.events))

\* ---- Ledger ----

\* Ledger(db_path) on a new database
SqlNew == [events |-> {}, refs |-> {}]

\* event_id TEXT UNIQUE NOT NULL
SqlUnique(s, event) == \A r \in s.events : r.event_id # event.event_id

\* Ledger.append: the INSERT fails on a known event_id and _connect rolls
\* back; otherwise the row and its reference rows (INSERT OR IGNORE) are
\* committed
SqlAppendStore(s, event) ==
    IF ~SqlUnique(s, event) THEN s
    ELSE [events |-> s.events \cup {SqlRow(event, NextRowId(s.events))},
          refs |-> s.refs \cup { <<event.event_id, event.artifact_refs[i]>> :
                                    i \in DOMAIN event.artifact_refs }]
SqlAppendResult(s, event) ==
    IF ~SqlUnique(s, event) THEN Raises("IntegrityError")
    ELSE Returns(NextRowId(s.events))

\* Ledger.get_event
SqlGetEvent(s, event_id) ==
    Returns(IF \E r \in s.events : r.event_id = event_id
            THEN Some(RowToEvent(CHOOSE r \in s.events :
                                     r.event_id = event_id))
            ELSE None)

\* the WHERE conditions of Ledger.iter_events: each filter that is not
\* None adds one, `e.event_type IN ()` for an empty set
SqlWhere(s, row, since, until, event_types, artifact_id) ==
    /\ artifact_id # None => <<row.event_id, artifact_id[1]>> \in s.refs
    /\ since # None => row.timestamp >= since[1]
    /\ until # None => row.timestamp <= until[1]
    /\ event_types # None => row.event_type \in event_types[1]

\* Ledger.iter_events consumed to its end
SqlIterEvents(s, since, until, event_types, artifact_id) ==
    Returns(OrderBySequence(
        { r \in s.events :
            SqlWhere(s, r, since, until, event_types, artifact_id) }))

\* Ledger.events_for_artifact
SqlEventsForArtifact(s, artifact_id) ==
    SqlIterEvents(s, None, None, None, Some(artifact_id))

\* Ledger.count(event_type=...)
SqlCountOf(s, event_type) ==
    Returns(IF event_type # None
            THEN Cardinality({ r \in s.events :
                                 r.event_type = event_type[1] })
            ELSE SqlCount(s.events))

\* ---- the same call on both ----

NoTwinCall == [op |-> "none", args |-> <<>>, mem |-> Returns(0), sql |-> Returns(0)]

TwinStart ==
    /\ n_mem = MemNew
    /\ n_sql = SqlNew
    /\ n_call = NoTwinCall

\* append(event) on both stores
TwinAppend(event) ==
    /\ Len(n_mem.events) < MaxTwinAppends
    /\ n_mem' = MemAppendStore(n_mem, event)
    /\ n_sql' = SqlAppendStore(n_sql, event)
    /\ n_call' = [op |-> "append", args |-> <<event>>,
                  mem |-> MemAppendResult(n_mem, event),
                  sql |-> SqlAppendResult(n_sql, event)]
    /\ UNCHANGED notTwinVars

\* list(iter_events(...)) on both stores
TwinIterEvents(since, until, event_types, artifact_id) ==
    /\ n_call' = [op |-> "iter_events",
                  args |-> <<since, until, event_types, artifact_id>>,
                  mem |-> MemIterEvents(n_mem, since, until, event_types,
                                        artifact_id),
                  sql |-> SqlIterEvents(n_sql, since, until, event_types,
                                        artifact_id)]
    /\ UNCHANGED <<n_mem, n_sql>>
    /\ UNCHANGED notTwinVars

\* list(events_for_artifact(artifact_id)) on both stores
TwinEventsForArtifact(artifact_id) ==
    /\ n_call' = [op |-> "events_for_artifact", args |-> <<artifact_id>>,
                  mem |-> MemEventsForArtifact(n_mem, artifact_id),
                  sql |-> SqlEventsForArtifact(n_sql, artifact_id)]
    /\ UNCHANGED <<n_mem, n_sql>>
    /\ UNCHANGED notTwinVars

\* get_event(event_id) on both stores
TwinGetEvent(event_id) ==
    /\ n_call' = [op |-> "get_event", args |-> <<event_id>>,
                  mem |-> MemGetEvent(n_mem, event_id),
                  sql |-> SqlGetEvent(n_sql, event_id)]
    /\ UNCHANGED <<n_mem, n_sql>>
    /\ UNCHANGED notTwinVars

\* count(event_type=...) on both stores
TwinCount(event_type) ==
    /\ n_call' = [op |-> "count", args |-> <<event_type>>,
                  mem |-> MemCountOf(n_mem, event_type),
                  sql |-> SqlCountOf(n_sql, event_type)]
    /\ UNCHANGED <<n_mem, n_sql>>
    /\ UNCHANGED notTwinVars

\* latest_sequence() on both stores
TwinLatestSequence ==
    /\ n_call' = [op |-> "latest_sequence", args |-> <<>>,
                  mem |-> Returns(MemLatestSequence(n_mem.events)),
                  sql |-> Returns(SqlLatestSequence(n_sql.events))]
    /\ UNCHANGED <<n_mem, n_sql>>
    /\ UNCHANGED notTwinVars

NextTwin ==
    \/ \E e \in TwinPool : TwinAppend(e)
    \/ \E since \in TwinTimes, until \in TwinTimes, types \in TwinTypeSets,
          aid \in TwinArtifacts : TwinIterEvents(since, until, types, aid)
    \/ \E aid \in {"a1", "a2", "a3"} : TwinEventsForArtifact(aid)
    \/ \E id \in TwinEventIds : TwinGetEvent(id)
    \/ \E type \in TwinTypes : TwinCount(type)
    \/ TwinLatestSequence

TwinIdle == TwinStart

(***************************************************************************)
(* The events the emitters build (atlas/confidence.py,                     *)
(* atlas/eyes/filesystem.py), appended through an EventWriter              *)
(*                                                                         *)
(* Events are typed as for the validator.  Floats stand as whole numbers   *)
(* of hundredths; event ids and timestamps are fixed, the validator looks  *)
(* at their types only.                                                    *)
(***************************************************************************)
EmitArtifacts == {"a1", "a2"}
EmitScores == {0, 50, 100}
EmitTriggers == {<<>>, <<"w1">>}
EmitSessions == {None, Some(""), Some("s1")}
EmitPaths == {"/r/file1.txt", "/r/subdir/file3.txt"}
EmitSizes == {0, 1}
EmitHashes == {None, Some("h1")}
EmitLimits ==
    { [reason |-> "Time budget exceeded", limit_type |-> "max_time_ms"],
      [reason |-> "File count budget exceeded", limit_type |-> "max_files"],
      [reason |-> "Byte budget would be exceeded", limit_type |-> "max_bytes"],
      [reason |-> "Permission denied during traversal",
       limit_type |-> "access"] }
EmitValues == {JInt(0), JInt(2), JFloat(150)}

\* if session_id: event["session_id"] = session_id
WithSession(event, session_id) ==
    IF TruthyStr(session_id) THEN Put(event, "session_id", JStr(session_id[1]))
    ELSE event

\* the event of ConfidenceEngine._emit_confidence_updated
ConfidenceUpdatedEvent(artifact_id, old, new, reason, triggers, session_id) ==
    WithSession(
        [event_id |-> JStr("conf-1"),
         event_type |-> JStr("CONFIDENCE_UPDATED"),
         ts |-> JFloat(1),
         actor |-> JDict([module |-> JStr("ConfidenceEngine")]),
         artifact_id |-> JStr(artifact_id),
         confidence |-> JFloat(new),
         evidence_refs |-> JList(triggers),
         payload |-> JDict([old_confidence |-> JFloat(old),
                            new_confidence |-> JFloat(new),
                            delta |-> JFloat(new - old),
                            reason |-> JStr(reason)])],
        session_id)

\* the event of FilesystemEye._emit_artifact_seen
ArtifactSeenEvent(path, size, content_hash, session_id) ==
    WithSession(
        [event_id |-> JStr("fs-2"),
         event_type |-> JStr("ARTIFACT_SEEN"),
         ts |-> JFloat(1),
         actor |-> JDict([module |-> JStr("FilesystemEye")]),
         artifact_id |-> IF TruthyStr(content_hash) THEN JStr(content_hash[1])
                         ELSE JStr("fs-1"),
         confidence |-> IF TruthyStr(content_hash) THEN JFloat(95)
                        ELSE JFloat(50),
         evidence_refs |-> JList(<<>>),
         payload |-> JDict([path |-> JStr(path),
                            size |-> JInt(size),
                            content_hash |-> IF content_hash = None THEN JNone
                                             ELSE JStr(content_hash[1]),
                            access_scope |-> JStr("read-only")])],
        session_id)

\* the event of FilesystemEye._emit_access_limitation
AccessLimitationEvent(reason, limit_type, limit_value, current_value, session_id) ==
    WithSession(
        [event_id |-> JStr("fs-1"),
         event_type |-> JStr("ACCESS_LIMITATION_NOTED"),
         ts |-> JFloat(1),
         actor |-> JDict([module |-> JStr("FilesystemEye")]),
         artifact_id |-> JNone,
         confidence |-> JFloat(100),
         evidence_refs |-> JList(<<>>),
         payload |-> JDict([reason |-> JStr(reason),
                            limit_type |-> JStr(limit_type),
                            limit_value |-> limit_value,
                            current_value |-> current_value,
                            access_scope |-> JStr("read-only")])],
        session_id)

\* self.writer.append(event) on an EventWriter
WriterAppend(event, isStrict) ==
    IF Accepted(event, isStrict) THEN "ok" ELSE "ValueError"

EmitStart ==
    /\ m_strict \in BOOLEAN
    /\ m_event = None
    /\ m_result = None

\* ConfidenceEngine._emit_confidence_updated(...)
EmitConfidence(artifact_id, old, new, triggers, session_id) ==
    /\ m_event = None
    /\ LET event == ConfidenceUpdatedEvent(artifact_id, old, new, "r",
                                           triggers, session_id)
       IN  /\ m_event' = Some(event)
           /\ m_result' = Some(WriterAppend(event, m_strict))
    /\ UNCHANGED m_strict
    /\ UNCHANGED notEmitVars

\* FilesystemEye._emit_artifact_seen(...)
EmitArtifactSeen(path, size, content_hash, session_id) ==
    /\ m_event = None
    /\ LET event == ArtifactSeenEvent(path, size, content_hash, session_id)
       IN  /\ m_event' = Some(event)
           /\ m_result' = Some(WriterAppend(event, m_strict))
    /\ UNCHANGED m_strict
    /\ UNCHANGED notEmitVars

\* FilesystemEye._emit_access_limitation(...)
EmitAccessLimitation(limit, limit_value, current_value, session_id) ==
    /\ m_event = None
    /\ LET event == AccessLimitationEvent(limit.reason, limit.limit_type,
                                          limit_value, current_value,
                                          session_id)
       IN  /\ m_event' = Some(event)
           /\ m_result' = Some(WriterAppend(event, m_strict))
    /\ UNCHANGED m_strict
    /\ UNCHANGED notEmitVars

NextEmit ==
    \/ \E aid \in EmitArtifacts, old \in EmitScores, new \in EmitScores,
          triggers \in EmitTriggers, session \in EmitSessions :
          EmitConfidence(aid, old, new, triggers, session)
    \/ \E path \in EmitPaths, size \in EmitSizes, hash \in EmitHashes,
          session \in EmitSessions :
          EmitArtifactSeen(path, size, hash, session)
    \/ \E limit \in EmitLimits, value \in EmitValues, current \in EmitValues,
          session \in EmitSessions :
          EmitAccessLimitation(limit, value, current, session)

EmitIdle ==
    /\ m_strict = FALSE
    /\ m_event = None
    /\ m_result = None

(***************************************************************************)
(* project_artifacts, write_snapshot and read_snapshot in a row            *)
(* (atlas/ledger/reducers.py, atlas/state/snapshots.py, cmd_rebuild)       *)
(*                                                                         *)
(* A JSON text is a tree of tokens: <<"null">>, <<"true">>, <<"false">>,   *)
(* <<"number", "int" or "float", n>> (a float is written with a decimal    *)
(* point or exponent, an int without), <<"string", s>>, <<"array", ...>>   *)
(* and <<"object", ...>>.  A line of the snapshot is the piece             *)
(* <<"text", tokens>>, followed by the newline.                            *)
(***************************************************************************)
\* json.dumps(value, ensure_ascii=False)
RECURSIVE DumpsJson(_)
DumpsJson(v) ==
    CASE v[1] = "none" -> <<"null">>
      [] v[1] = "bool" -> IF v[2] THEN <<"true">> ELSE <<"false">>
      [] v[1] = "int" -> <<"number", "int", v[2]>>
      [] v[1] = "float" -> <<"number", "float", v[2]>>
      [] v[1] = "str" -> <<"string", v[2]>>
      [] v[1] = "list" -> <<"array", [i \in DOMAIN v[2] |-> <<"string", v[2][i]>>]>>
      [] v[1] = "dict" -> <<"object", [k \in DOMAIN v[2] |-> DumpsJson(v[2][k])]>>

\* json.loads(text)
RECURSIVE LoadsJson(_)
LoadsJson(t) ==
    CASE t[1] = "null" -> JNone
      [] t[1] = "true" -> <<"bool", TRUE>>
      [] t[1] = "false" -> <<"bool", FALSE>>
      [] t[1] = "number" -> IF t[2] = "int" THEN JInt(t[3]) ELSE JFloat(t[3])
      [] t[1] = "string" -> JStr(t[2])
      [] t[1] = "array" -> JList([i \in DOMAIN t[2] |-> t[2][i][2]])
      [] t[1] = "object" -> JDict([k \in DOMAIN t[2] |-> LoadsJson(t[2][k])])

\* artifacts.items(): the keys in some order (the order of the lines does
\* not show in the mapping read back)
RECURSIVE Items(_)
Items(keys) ==
    IF keys = {} THEN <<>>
    ELSE LET k == CHOOSE x \in keys : TRUE IN <<k>> \o Items(keys \ {k})

\* the text write_snapshot writes: json.dumps(state) + "\n" per artifact
RECURSIVE SnapshotText_SkipsUnscored(_, _, _)
SnapshotText_SkipsUnscored(artifacts, order, i) ==
    IF i > Len(order) THEN <<>>
    ELSE (IF artifacts[order[i]]["confidence"] = JNone THEN <<>>
          ELSE <<(<<"text", DumpsJson(JDict(artifacts[order[i]]))>>), NL>>)
         \o SnapshotText_SkipsUnscored(artifacts, order, i + 1)

RECURSIVE SnapshotText(_, _, _)
SnapshotText(artifacts, order, i) ==
    IF i > Len(order) THEN <<>>
    ELSE <<(<<"text", DumpsJson(JDict(artifacts[order[i]]))>>), NL>>
         \o SnapshotText(artifacts, order, i + 1)

\* write_snapshot(path, artifacts) that runs to its end: the file and the
\* count returned
WriteSnapshot(artifacts) ==
    [file |-> SnapshotText(artifacts, Items(DOMAIN artifacts), 1),
     count |-> Len(Items(DOMAIN artifacts))]

\* the loop of read_snapshot over the lines of a text
RECURSIVE ReadText(_, _, _)
ReadText(lines, i, artifacts) ==
    IF i > Len(lines) THEN [raised |-> "", artifacts |-> artifacts]
    ELSE IF lines[i] = <<>> THEN ReadText(lines, i + 1, artifacts)
    ELSE IF ~(Len(lines[i]) = 1 /\ lines[i][1][1] = "text")
    THEN ReadText(lines, i + 1, artifacts)
    ELSE LET state == LoadsJson(lines[i][1][2])
         IN  IF state[1] # "dict"
             THEN [raised |-> "AttributeError", artifacts |-> <<>>]
             ELSE IF JTruthy(JGet(state[2], "artifact_id"))
             THEN ReadText(lines, i + 1,
                           Put(artifacts, state[2]["artifact_id"][2], state[2]))
             ELSE ReadText(lines, i + 1, artifacts)

\* read_snapshot(path) on a file with this text, or on no file
ReadSnapshotText(file) ==
    IF file = None THEN [raised |-> "", artifacts |-> <<>>]
    ELSE ReadText(FileLines(file[1]), 1, <<>>)

\* The events drawn: ARTIFACT_SEEN as FilesystemEye builds it (with a
\* confidence in the envelope), CONFIDENCE_UPDATED as ConfidenceEngine
\* builds it, twice with timestamps against the order, a fingerprint, an
\* extraction, an observation of a second artifact without confidence and
\* an event about no artifact.
ArtifactPool ==
    { DEvent("p1", "ARTIFACT_SEEN", 2,
             [artifact_id |-> JStr("a1"), confidence |-> JFloat(95),
              evidence_refs |-> JList(<<>>)],
             [path |-> JStr("/x"), size |-> JInt(1),
              content_hash |-> JStr("h1"),
              access_scope |-> JStr("read-only")]),
      DEvent("p2", "CONFIDENCE_UPDATED", 3,
             [artifact_id |-> JStr("a1"), confidence |-> JFloat(30),
              evidence_refs |-> JList(<<"p1">>)],
             [old_confidence |-> JFloat(95), new_confidence |-> JFloat(30),
              delta |-> JFloat(0 - 65), reason |-> JStr("r")]),
      DEvent("p3", "CONFIDENCE_UPDATED", 1,
             [artifact_id |-> JStr("a1"), confidence |-> JFloat(60),
              evidence_refs |-> JList(<<>>)],
             [old_confidence |-> JFloat(30), new_confidence |-> JFloat(60),
              delta |-> JFloat(30), reason |-> JStr("r")]),
      DEvent("p4", "FINGERPRINT_COMPUTED", 2, [artifact_id |-> JStr("a1")],
             [artifact_id |-> JStr("a1"), content_hash |-> JStr("h2")]),
      DEvent("p5", "EXTRACTION_PERFORMED", 2, [artifact_id |-> JStr("a1")],
             [artifact_id |-> JStr("a1"), extraction_depth |-> JInt(1),
              extracted_metadata |-> JDict([lang |-> JStr("py")])]),
      DEvent("p6", "ARTIFACT_SEEN", 1, <<>>,
             [artifact_id |-> JStr("a2"), locator |-> JStr("/y"),
              content_hash |-> JNone]),
      DEvent("p7", "SESSION_STARTED", 1, <<>>, [command |-> JStr("scan")]) }

\* a history read from the ledger
CacheStart ==
    /\ a_events \in Histories(ArtifactPool)
    /\ a_state = None
    /\ a_file = None
    /\ a_count = None
    /\ a_read = None

\* artifacts = project_artifacts(events)
ProjectArtifactsCall ==
    /\ a_state = None
    /\ a_state' = Some(ProjectArtifacts(a_events))
    /\ UNCHANGED <<a_events, a_file, a_count, a_read>>
    /\ UNCHANGED notCacheVars

\* count = write_snapshot(snap_path, artifacts)
WriteSnapshotCall ==
    /\ a_state # None
    /\ a_count = None
    /\ a_file' = Some(WriteSnapshot(a_state[1]).file)
    /\ a_count' = Some(WriteSnapshot(a_state[1]).count)
    /\ UNCHANGED <<a_events, a_state, a_read>>
    /\ UNCHANGED notCacheVars

\* read_snapshot(snap_path), once the snapshot is written
ReadSnapshotBack ==
    /\ a_count # None
    /\ a_read = None
    /\ a_read' = Some(ReadSnapshotText(a_file))
    /\ UNCHANGED <<a_events, a_state, a_file, a_count>>
    /\ UNCHANGED notCacheVars

NextCache ==
    \/ ProjectArtifactsCall
    \/ WriteSnapshotCall
    \/ ReadSnapshotBack

CacheIdle ==
    /\ a_events = <<>>
    /\ a_state = None
    /\ a_file = None
    /\ a_count = None
    /\ a_read = None

(***************************************************************************)
(* RemotePolicy, WebEye and RemoteRepoEye (atlas/remote/policy.py,         *)
(* atlas/eyes/web.py, atlas/eyes/remote_repo.py)                           *)
(***************************************************************************)

MaxRemoteCalls == 2     \* largest max_remote_calls drawn besides the default
MaxObserve == 2         \* calls of the eyes in one behaviour
DefaultMaxRemoteCalls == 10

\* A URL is the sequence of its pieces: scheme, "://", host, ":", port and
\* the path segments with their "/".  A host is one piece.
RemoteUrls ==
    { <<"https", "://", "github.com", "/", "o", "/", "r">>,
      <<"git+https", "://", "github.com", "/", "o", "/", "r">>,
      <<"https", "://", "github.com", "/", "o">>,
      <<"HTTPS", "://", "Example.COM", ":", "8080", "/", "docs">>,
      <<"example.com">> }

\* str.lower() of a piece
LowerPiece(piece) ==
    CASE piece = "HTTPS" -> "https"
      [] piece = "Example.COM" -> "example.com"
      [] OTHER -> piece

\* url.lower()
LowerUrl(url) == [i \in DOMAIN url |-> LowerPiece(url[i])]

\* the position of the first piece equal to sep, 0 if there is none
FirstPiece(url, sep) ==
    IF \E i \in DOMAIN url : url[i] = sep
    THEN CHOOSE i \in DOMAIN url :
            url[i] = sep /\ \A j \in 1..(i - 1) : url[j] # sep
    ELSE 0

\* url.split(sep, 1)[1] and url.split(sep, 1)[0]
AfterPiece(url, sep) ==
    IF FirstPiece(url, sep) = 0 THEN url
    ELSE SubSeq(url, FirstPiece(url, sep) + 1, Len(url))
BeforePiece(url, sep) ==
    IF FirstPiece(url, sep) = 0 THEN url
    ELSE SubSeq(url, 1, FirstPiece(url, sep) - 1)

\* RemotePolicy._extract_domain
ExtractDomain(url) ==
    LET host == BeforePiece(BeforePiece(AfterPiece(LowerUrl(url), "://"),
                                        "/"), ":")
    IN IF host = <<>> THEN "" ELSE host[1]

\* RemotePolicy(...) with calls_made = 0: the default, which allows nothing,
\* and policies with every switch, limit and allow-list drawn
RemoteAllowlists ==
    { None, Some(<<>>), Some(<<"api.github.com">>),
      Some(<<"raw.githubusercontent.com", "example.com">>) }

NewRemotePolicy(allow, max_calls, domains) ==
    [allow_remote_access |-> allow, max_remote_calls |-> max_calls,
     required_domains_allowlist |-> domains, calls_made |-> 0]

DefaultRemotePolicy == NewRemotePolicy(FALSE, DefaultMaxRemoteCalls, None)

RemotePolicies ==
    {DefaultRemotePolicy} \cup
    { NewRemotePolicy(allow, max_calls, domains) :
        allow \in BOOLEAN, max_calls \in 0..MaxRemoteCalls,
        domains \in RemoteAllowlists }

\* `domain in allowlist` for a list
InList(x, list) == \E i \in DOMAIN list : list[i] = x

\* RemotePolicy.can_access
CanAccess(policy, url) ==
    IF ~policy.allow_remote_access
    THEN [allowed |-> FALSE, reason |-> "Remote access is disabled by policy"]
    ELSE IF policy.calls_made >= policy.max_remote_calls
    THEN [allowed |-> FALSE, reason |-> "Remote call limit exceeded"]
    ELSE IF /\ policy.required_domains_allowlist # None
            /\ ~InList(ExtractDomain(url), policy.required_domains_allowlist[1])
    THEN [allowed |-> FALSE, reason |-> "Domain not in allowlist"]
    ELSE [allowed |-> TRUE, reason |-> "Access permitted"]

\* RemotePolicy.record_call
RecordCall(policy) == [policy EXCEPT !.calls_made = @ + 1]

\* estimate_source_reliability, in hundredths: `trusted in domain` holds of
\* the drawn domains for api.github.com and github.com only
SourceReliability(url, allowlist) ==
    LET domain == ExtractDomain(url) IN
    IF allowlist # <<>> /\ InList(domain, allowlist) THEN 80
    ELSE IF domain \in {"github.com", "api.github.com"} THEN 75
    ELSE 40

\* estimate_volatility, in hundredths: of the drawn URLs only those with
\* "api" or "docs" in them match a pattern
Volatility(url) ==
    LET lower == LowerUrl(url) IN
    IF \E i \in DOMAIN lower : lower[i] \in {"api.github.com", "docs"} THEN 20
    ELSE IF \E i \in DOMAIN lower : lower[i] = "raw.githubusercontent.com"
    THEN 40
    ELSE 50

\* remote_meta of observe
RemoteMeta(url, policy) ==
    JDict([source_reliability |->
               JFloat(SourceReliability(url,
                   IF policy.required_domains_allowlist = None THEN <<>>
                   ELSE policy.required_domains_allowlist[1])),
           volatility_score |-> JFloat(Volatility(url)),
           freshness_window_seconds |-> JInt(86400),
           last_verified_at |-> JFloat(1),
           corroboration_count |-> JInt(1)])

\* the envelope every _emit_* of the two eyes builds
RemoteEvent(module, type, artifact_id, confidence, payload, session_id) ==
    WithSession(
        [event_id |-> JStr("remote-1"),
         event_type |-> JStr(type),
         ts |-> JFloat(1),
         actor |-> JDict([module |-> JStr(module)]),
         artifact_id |-> artifact_id,
         confidence |-> JFloat(confidence),
         evidence_refs |-> JList(<<>>),
         payload |-> JDict(payload)],
        session_id)

\* the event of _emit_remote_lookup_declined
DeclinedEvent(module, url, reason, session_id) ==
    RemoteEvent(module, "REMOTE_LOOKUP_DECLINED", JNone, 100,
                [locator |-> JStr(url), reason |-> JStr(reason),
                 access_scope |-> JStr("none")],
                session_id)

\* the event of _emit_access_limitation
LimitationEvent(module, url, limit_type, limit_value, current_value, session_id) ==
    RemoteEvent(module, "ACCESS_LIMITATION_NOTED", JNone, 100,
                [locator |-> JStr(url), reason |-> JStr(limit_type),
                 limit_type |-> JStr(limit_type),
                 limit_value |-> limit_value,
                 current_value |-> current_value,
                 access_scope |-> JStr("read-only")],
                session_id)

\* the events of _emit_artifact_seen, _emit_fingerprint_computed and
\* _emit_extraction_performed
RemoteSeenEvent(module, url, policy, session_id) ==
    RemoteEvent(module, "ARTIFACT_SEEN", JStr("h1"),
                (9 * SourceReliability(url,
                    IF policy.required_domains_allowlist = None THEN <<>>
                    ELSE policy.required_domains_allowlist[1])) \div 10,
                [locator |-> JStr(url),
                 source_type |-> JStr(IF module = "WebEye" THEN "web"
                                      ELSE "remote_repo"),
                 access_scope |-> JStr("read-only"),
                 size |-> JInt(3),
                 content_type |-> JStr("text/plain"),
                 remote |-> RemoteMeta(url, policy)],
                session_id)

RemoteFingerprintEvent(module, session_id) ==
    RemoteEvent(module, "FINGERPRINT_COMPUTED", JStr("h1"), 100,
                [content_hash |-> JStr("h1"), hash_algorithm |-> JStr("sha256"),
                 size_bytes |-> JInt(3)],
                session_id)

RemoteExtractionEvent(module, url, policy, session_id) ==
    RemoteEvent(module, "EXTRACTION_PERFORMED", JStr("h1"), 80,
                [depth |-> JStr("shallow"),
                 extracted_text_excerpt |-> JStr("abc"),
                 metadata |-> JDict([http_status |-> JInt(200),
                                     content_type |-> JStr("text/plain"),
                                     url |-> JStr(url)]),
                 remote |-> RemoteMeta(url, policy)],
                session_id)

\* What one call of an eye has done so far: the policy, the events appended,
\* the urlopen calls, and how often can_access denied and allowed, a
\* REMOTE_LOOKUP_DECLINED event was appended.
RemoteWorld(policy, appended, fetches) ==
    [policy |-> policy, log |-> appended, fetches |-> fetches,
     denials |-> 0, allowed |-> 0, declined |-> 0]

\* self.writer.append(event) for each event in turn, until one raises
RECURSIVE EmitAll(_, _, _, _)
EmitAll(w, events, isStrict, i) ==
    IF i > Len(events) THEN [w |-> w, raised |-> ""]
    ELSE IF WriterAppend(events[i], isStrict) # "ok"
    THEN [w |-> w, raised |-> "ValueError"]
    ELSE EmitAll([w EXCEPT !.log = Append(@, TypeOf(events[i])),
                           !.declined = IF TypeOf(events[i]) =
                                             "REMOTE_LOOKUP_DECLINED"
                                        THEN @ + 1 ELSE @],
                 events, isStrict, i + 1)

\* what urlopen and the budget check do to an allowed request
FetchOutcomes ==
    {"success", "truncated", "timeout", "http_404", "http_500", "url_error",
     "exception"}

\* Request(url, ...) raises ValueError for a URL without a scheme
RequestRaises(url) == FirstPiece(url, "://") # 2

\* a `return {"status": ...}` and an exception leaving observe
ObserveReturns(w, status) == [w |-> w, raised |-> "", status |-> status]
ObserveRaises(w, name) == [w |-> w, raised |-> name, status |-> ""]

\* _emit_access_limitation(...) followed by return {"status": status, ...}
LimitationThen(module, w, url, limit_type, limit_value, current_value, session_id, isStrict, status) ==
    LET r == EmitAll(w, <<LimitationEvent(module, url, limit_type, limit_value,
                                          current_value, session_id)>>,
                     isStrict, 1)
    IN IF r.raised # "" THEN ObserveRaises(r.w, r.raised) ELSE ObserveReturns(r.w, status)

\* the `except Exception` clause of observe: WebEye notes a limitation,
\* RemoteRepoEye only returns
ExceptException(module, w, url, session_id, isStrict) ==
    IF module = "WebEye"
    THEN LimitationThen(module, w, url, "exception", JInt(0), JInt(0),
                        session_id, isStrict, "error")
    ELSE ObserveReturns(w, "error")

\* WebEye.observe and RemoteRepoEye.observe
Observe(module, w, url, outcome, session_id, isStrict) ==
    LET access == CanAccess(w.policy, url) IN
    IF ~access.allowed
    THEN LET r == EmitAll([w EXCEPT !.denials = @ + 1],
                          <<DeclinedEvent(module, url, access.reason,
                                          session_id)>>,
                          isStrict, 1)
         IN IF r.raised # "" THEN ObserveRaises(r.w, r.raised)
            ELSE ObserveReturns(r.w, "declined")
    ELSE
    LET w1 == [w EXCEPT !.policy = RecordCall(@), !.allowed = @ + 1]
        w2 == [w1 EXCEPT !.fetches = @ + 1]
    IN
    IF RequestRaises(url) THEN ExceptException(module, w1, url, session_id, isStrict)
    ELSE
    CASE outcome = "timeout" ->
           LET r == LimitationThen(module, w2, url, "max_time_ms", JFloat(1),
                                   JFloat(2), session_id, isStrict, "timeout")
           IN IF r.raised # ""
              THEN ExceptException(module, r.w, url, session_id, isStrict)
              ELSE r
      [] outcome = "http_404" ->
           IF module = "WebEye"
           THEN LimitationThen(module, w2, url, "http_error", JInt(0),
                               JInt(404), session_id, isStrict, "http_error")
           ELSE ObserveReturns(w2, "not_found")
      [] outcome = "http_500" ->
           LimitationThen(module, w2, url, "http_error", JInt(0), JInt(500),
                          session_id, isStrict, "http_error")
      [] outcome = "url_error" ->
           LimitationThen(module, w2, url, "url_error", JInt(0), JInt(0),
                          session_id, isStrict, "url_error")
      [] outcome = "exception" ->
           ExceptException(module, w2, url, session_id, isStrict)
      [] OTHER ->
           LET r == EmitAll(w2,
                      <<RemoteSeenEvent(module, url, w2.policy, session_id),
                        RemoteFingerprintEvent(module, session_id),
                        RemoteExtractionEvent(module, url, w2.policy,
                                              session_id)>>
                      \o (IF outcome = "truncated"
                          THEN <<LimitationEvent(module, url, "max_bytes",
                                                 JInt(10), JInt(3), session_id)>>
                          ELSE <<>>),
                      isStrict, 1)
           IN IF r.raised # "" THEN ObserveRaises(r.w, r.raised)
              ELSE ObserveReturns(r.w, "success")

\* RemoteRepoEye.can_handle
RepoCanHandle(locator) ==
    LET lower == LowerUrl(locator) IN
    \/ /\ Len(lower) >= 4
       /\ SubSeq(lower, 1, 4) = <<"https", "://", "github.com", "/">>
    \/ /\ Len(lower) >= 2
       /\ SubSeq(lower, 1, 2) = <<"git+https", "://">>

\* RemoteRepoEye._parse_github_url: (owner, repo) or None
ParseGithubUrl(url) ==
    LET u == IF Len(url) >= 2 /\ SubSeq(url, 1, 2) = <<"git+https", "://">>
             THEN <<"https">> \o Tail(url) ELSE url
    IN IF /\ Len(u) >= 7
          /\ SubSeq(u, 1, 4) = <<"https", "://", "github.com", "/">>
          /\ u[5] # "/" /\ u[6] = "/" /\ u[7] # "/"
          /\ Len(u) > 7 => u[8] = "/"
       THEN Some(<<u[5], u[7]>>)
       ELSE None

\* RemoteRepoEye.MANIFEST_FILES
ManifestFiles ==
    <<"README.md", "README.rst", "README.txt", "README", "pyproject.toml",
      "requirements.txt", "setup.py", "package.json", "Cargo.toml", "go.mod">>

\* RemoteRepoEye.enumerate
Enumerate(locator) ==
    IF ~RepoCanHandle(locator) THEN <<>>
    ELSE IF ParseGithubUrl(locator) = None THEN <<>>
    ELSE LET owner == ParseGithubUrl(locator)[1][1]
             repo == ParseGithubUrl(locator)[1][2]
         IN <<<<"https", "://", "api.github.com", "/", "repos", "/", owner,
                "/", repo>>>>
            \o [i \in DOMAIN ManifestFiles |->
                  <<"https", "://", "raw.githubusercontent.com", "/", owner,
                    "/", repo, "/", "HEAD", "/", ManifestFiles[i]>>]

\* the loop of RemoteRepoEye.observe_repo from candidate i on; outcomes gives
\* what the fetch of a domain does
RECURSIVE ObserveCandidates(_, _, _, _, _, _, _)
ObserveCandidates(w, candidates, i, results, outcomes, session_id, isStrict) ==
    IF i > Len(candidates) THEN ObserveReturns(w, results)
    ELSE LET r == Observe("RemoteRepoEye", w, candidates[i],
                          outcomes[ExtractDomain(candidates[i])], session_id,
                          isStrict)
         IN IF r.raised # "" THEN ObserveRaises(r.w, r.raised)
            ELSE IF r.w.policy.calls_made >= r.w.policy.max_remote_calls
            THEN ObserveReturns(r.w, Append(results, r.status))
            ELSE ObserveCandidates(r.w, candidates, i + 1,
                                   Append(results, r.status), outcomes,
                                   session_id, isStrict)

\* RemoteRepoEye.observe_repo
ObserveRepo(w, repo_url, outcomes, session_id, isStrict) ==
    ObserveCandidates(w, Enumerate(repo_url), 1, <<>>, outcomes, session_id,
                      isStrict)

RemoteSessions == {None, Some("s1")}

RemoteStart ==
    /\ r_policy \in RemotePolicies
    /\ r_strict \in BOOLEAN
    /\ r_log = <<>>
    /\ r_fetches = 0
    /\ r_call = <<>>

\* the state after a call that ended as `done`
AfterCall(op, url, done) ==
    /\ r_policy' = done.w.policy
    /\ r_log' = done.w.log
    /\ r_fetches' = done.w.fetches
    /\ r_call' = Append(r_call,
                    [op |-> op, url |-> url, raised |-> done.raised,
                     denials |-> done.w.denials, allowed |-> done.w.allowed,
                     declined |-> done.w.declined,
                     fetched |-> done.w.fetches - r_fetches,
                     recorded |-> done.w.policy.calls_made - r_policy.calls_made])
    /\ UNCHANGED r_strict
    /\ UNCHANGED notRemoteVars

\* WebEye(writer).observe(url, budget, remote_policy, session_id)
WebObserve(url, outcome, session_id) ==
    /\ Len(r_call) < MaxObserve
    /\ AfterCall("WebEye.observe", url,
                 Observe("WebEye", RemoteWorld(r_policy, r_log, r_fetches), url,
                         outcome, session_id, r_strict))

\* RemoteRepoEye(writer).observe(url, budget, remote_policy, session_id)
RepoObserve(url, outcome, session_id) ==
    /\ Len(r_call) < MaxObserve
    /\ AfterCall("RemoteRepoEye.observe", url,
                 Observe("RemoteRepoEye", RemoteWorld(r_policy, r_log, r_fetches),
                         url, outcome, session_id, r_strict))

\* RemoteRepoEye(writer).observe_repo(repo_url, budget, remote_policy,
\* session_id)
RepoObserveRepo(repo_url, api_outcome, raw_outcome, session_id) ==
    /\ Len(r_call) < MaxObserve
    /\ AfterCall("RemoteRepoEye.observe_repo", repo_url,
                 ObserveRepo(RemoteWorld(r_policy, r_log, r_fetches), repo_url,
                             [d \in {"api.github.com",
                                     "raw.githubusercontent.com"} |->
                                 IF d = "api.github.com" THEN api_outcome
                                 ELSE raw_outcome],
                             session_id, r_strict))

NextRemote ==
    \/ \E url \in RemoteUrls, outcome \in FetchOutcomes,
          session_id \in RemoteSessions : WebObserve(url, outcome, session_id)
    \/ \E url \in RemoteUrls, outcome \in FetchOutcomes,
          session_id \in RemoteSessions : RepoObserve(url, outcome, session_id)
    \/ \E repo_url \in RemoteUrls, api_outcome \in FetchOutcomes,
          raw_outcome \in FetchOutcomes, session_id \in RemoteSessions :
          RepoObserveRepo(repo_url, api_outcome, raw_outcome, session_id)

RemoteIdle ==
    /\ r_policy = DefaultRemotePolicy
    /\ r_strict = FALSE
    /\ r_log = <<>>
    /\ r_fetches = 0
    /\ r_call = <<>>

(***************************************************************************)
(* Specifications                                                          *)
(***************************************************************************)
InitBudget == BudgetStart /\ ProjIdle /\ LedgerIdle /\ SnapIdle /\ ValidIdle /\ ReplayIdle /\ ViewIdle /\ ConfIdle /\ EyeIdle /\ ReadIdle /\ LockIdle /\ TwinIdle /\ EmitIdle /\ CacheIdle /\ RemoteIdle
SpecBudget == InitBudget /\ [][NextBudget]_vars

InitProj == ProjIdle /\ BudgetIdle /\ LedgerIdle /\ SnapIdle /\ ValidIdle /\ ReplayIdle /\ ViewIdle /\ ConfIdle /\ EyeIdle /\ ReadIdle /\ LockIdle /\ TwinIdle /\ EmitIdle /\ CacheIdle /\ RemoteIdle
SpecProj == InitProj /\ [][NextProj]_vars

InitLedger == LedgerStart /\ ProjIdle /\ BudgetIdle /\ SnapIdle /\ ValidIdle /\ ReplayIdle /\ ViewIdle /\ ConfIdle /\ EyeIdle /\ ReadIdle /\ LockIdle /\ TwinIdle /\ EmitIdle /\ CacheIdle /\ RemoteIdle
SpecLedger == InitLedger /\ [][NextLedger]_vars

InitSnap == SnapIdle /\ ProjIdle /\ BudgetIdle /\ LedgerIdle /\ ValidIdle /\ ReplayIdle /\ ViewIdle /\ ConfIdle /\ EyeIdle /\ ReadIdle /\ LockIdle /\ TwinIdle /\ EmitIdle /\ CacheIdle /\ RemoteIdle
SpecSnap == InitSnap /\ [][NextSnap]_vars

InitClock == ClockStart /\ ProjIdle /\ LedgerIdle /\ SnapIdle /\ ValidIdle /\ ReplayIdle /\ ViewIdle /\ ConfIdle /\ EyeIdle /\ ReadIdle /\ LockIdle /\ TwinIdle /\ EmitIdle /\ CacheIdle /\ RemoteIdle
SpecClock == InitClock /\ [][NextClock]_vars

InitMeter == MeterStart /\ ProjIdle /\ LedgerIdle /\ SnapIdle /\ ValidIdle /\ ReplayIdle /\ ViewIdle /\ ConfIdle /\ EyeIdle /\ ReadIdle /\ LockIdle /\ TwinIdle /\ EmitIdle /\ CacheIdle /\ RemoteIdle
SpecMeter == InitMeter /\ [][NextMeter]_vars

InitQuery == QueryStart /\ ProjIdle /\ LedgerIdle /\ SnapIdle /\ ValidIdle /\ ReplayIdle /\ ViewIdle /\ ConfIdle /\ EyeIdle /\ ReadIdle /\ LockIdle /\ TwinIdle /\ EmitIdle /\ CacheIdle /\ RemoteIdle
SpecQuery == InitQuery /\ [][NextQuery]_vars

InitValid == ValidStart /\ BudgetIdle /\ ProjIdle /\ LedgerIdle /\ SnapIdle /\ ReplayIdle /\ ViewIdle /\ ConfIdle /\ EyeIdle /\ ReadIdle /\ LockIdle /\ TwinIdle /\ EmitIdle /\ CacheIdle /\ RemoteIdle
SpecValid == InitValid /\ [][NextValid]_vars

InitReplay == ReplayStart /\ BudgetIdle /\ ProjIdle /\ LedgerIdle /\ SnapIdle /\ ValidIdle /\ ViewIdle /\ ConfIdle /\ EyeIdle /\ ReadIdle /\ LockIdle /\ TwinIdle /\ EmitIdle /\ CacheIdle /\ RemoteIdle
SpecReplay == InitReplay /\ [][NextReplay]_vars

InitView == ViewStart /\ BudgetIdle /\ ProjIdle /\ LedgerIdle /\ SnapIdle /\ ValidIdle /\ ReplayIdle /\ ConfIdle /\ EyeIdle /\ ReadIdle /\ LockIdle /\ TwinIdle /\ EmitIdle /\ CacheIdle /\ RemoteIdle
SpecView == InitView /\ [][NextView]_vars

InitConf == ConfStart /\ BudgetIdle /\ ProjIdle /\ LedgerIdle /\ SnapIdle /\ ValidIdle /\ ReplayIdle /\ ViewIdle /\ EyeIdle /\ ReadIdle /\ LockIdle /\ TwinIdle /\ EmitIdle /\ CacheIdle /\ RemoteIdle
SpecConf == InitConf /\ [][NextConf]_vars
SpecEvolve == InitConf /\ [][NextEvolve]_vars

InitEye == EyeStart /\ BudgetIdle /\ ProjIdle /\ LedgerIdle /\ SnapIdle /\ ValidIdle /\ ReplayIdle /\ ViewIdle /\ ConfIdle /\ ReadIdle /\ LockIdle /\ TwinIdle /\ EmitIdle /\ CacheIdle /\ RemoteIdle
SpecEye == InitEye /\ [][NextEye]_vars

InitRead == ReadStart /\ BudgetIdle /\ ProjIdle /\ LedgerIdle /\ SnapIdle /\ ValidIdle /\ ReplayIdle /\ ViewIdle /\ ConfIdle /\ EyeIdle /\ LockIdle /\ TwinIdle /\ EmitIdle /\ CacheIdle /\ RemoteIdle
SpecRead == InitRead /\ [][NextRead]_vars

InitLock == LockStart /\ BudgetIdle /\ ProjIdle /\ LedgerIdle /\ SnapIdle /\ ValidIdle /\ ReplayIdle /\ ViewIdle /\ ConfIdle /\ EyeIdle /\ ReadIdle /\ TwinIdle /\ EmitIdle /\ CacheIdle /\ RemoteIdle
SpecLock == InitLock /\ [][NextLock]_vars

InitTwin == TwinStart /\ BudgetIdle /\ ProjIdle /\ LedgerIdle /\ SnapIdle /\ ValidIdle /\ ReplayIdle /\ ViewIdle /\ ConfIdle /\ EyeIdle /\ ReadIdle /\ LockIdle /\ EmitIdle /\ CacheIdle /\ RemoteIdle
SpecTwin == InitTwin /\ [][NextTwin]_vars

InitEmit == EmitStart /\ BudgetIdle /\ ProjIdle /\ LedgerIdle /\ SnapIdle /\ ValidIdle /\ ReplayIdle /\ ViewIdle /\ ConfIdle /\ EyeIdle /\ ReadIdle /\ LockIdle /\ TwinIdle /\ CacheIdle /\ RemoteIdle
SpecEmit == InitEmit /\ [][NextEmit]_vars

InitCache == CacheStart /\ BudgetIdle /\ ProjIdle /\ LedgerIdle /\ SnapIdle /\ ValidIdle /\ ReplayIdle /\ ViewIdle /\ ConfIdle /\ EyeIdle /\ ReadIdle /\ LockIdle /\ TwinIdle /\ EmitIdle /\ RemoteIdle
SpecCache == InitCache /\ [][NextCache]_vars

InitRemote == RemoteStart /\ CacheIdle /\ BudgetIdle /\ ProjIdle /\ LedgerIdle /\ SnapIdle /\ ValidIdle /\ ReplayIdle /\ ViewIdle /\ ConfIdle /\ EyeIdle /\ ReadIdle /\ LockIdle /\ TwinIdle /\ EmitIdle
SpecRemote == InitRemote /\ [][NextRemote]_vars

(***************************************************************************)
(* Projection claims                                                       *)
(***************************************************************************)
C1_RebuildEqualsIncremental ==
    (rebuilt_n # NotRebuilt /\ live_pos = rebuilt_n) => engine = live

C1_RebuildRepeatable ==
    (rebuilt_n # NotRebuilt /\ rebuilt_n' = rebuilt_n /\ mem_events' = mem_events)
        => engine' = engine

\* C1: whatever state the engine was in, rebuild_from over the ledger's event
\* sequence E leaves the artifact, relation and conflict projections in the
\* state reached by apply(e) for each e of E in order on a fresh engine, and
\* running it again over the same E leaves that state unchanged.
C1_ReplayDeterminism ==
    [](C1_RebuildEqualsIncremental) /\ [][C1_RebuildRepeatable]_vars

\* a rebuild over two events, the second re-proposing the first's relation,
\* with the incremental engine caught up
C1_Witness ==
    /\ rebuilt_n = 2
    /\ live_pos = 2
    /\ mem_events[1].event_id = "e12"
    /\ mem_events[2].event_id = "e13"
    /\ Len(engine.relations.relations) = 1
    /\ engine.relations.relations[1].confidence_score = Some(9)
    /\ engine = live

(***************************************************************************)
(* Ledger store claims                                                     *)
(***************************************************************************)
WEvent(id) ==
    CHOOSE e \in WriterPool : "event_id" \in DOMAIN e /\ e["event_id"][2] = id

\* the number each append that entered the store returns, in that order
RECURSIVE Numbers(_, _)
Numbers(entries, i) ==
    IF i > Len(entries) THEN <<>>
    ELSE <<entries[i].seq>> \o Numbers(entries, i + 1)

\* the event_ids whose text, whole or cut, is somewhere in the segments
WrittenIds ==
    UNION { { segments[d][i][2] :
                i \in { j \in DOMAIN segments[d] : segments[d][j] # NL } } :
            d \in DOMAIN segments }

C2_Step ==
    /\ \A d \in DOMAIN segments :
         /\ d \in DOMAIN segments'
         /\ IF crashes' = crashes
            THEN IsPrefix(segments[d], segments'[d])
            ELSE IsPrefix(SubSeq(segments[d], 1, synced[d]), segments'[d])
    /\ IsPrefix(mem_events, mem_events')
    /\ sql_events \subseteq sql_events'

\* C2: whatever operation runs (an append that succeeds or is rejected, a
\* read, a snapshot write, an append of a confidence event), every segment
\* that exists still exists afterwards and its old content is a prefix of its
\* new content: nothing already in the ledger is removed, rewritten or
\* reordered.  The same holds for the events of InMemoryLedger and the rows of
\* Ledger.  (Across a crash, it holds for the content that was fsynced.)
C2_AppendOnly == [][C2_Step]_vars

\* two appends have returned, a later one was rejected, and a snapshot was
\* written
C2_Witness ==
    /\ impl = "EventWriter"
    /\ Len(returned) = 2
    /\ w_result = "ValueError"
    /\ snap_file # None
    /\ \E d \in DOMAIN segments : Len(segments[d]) = 4

\* C3: each store yields the events in the order they were appended,
\* whatever their timestamps: InMemoryLedger.iter_events and
\* Ledger.iter_events yield exactly the appended events in append order (and,
\* filtered by artifact, a subsequence of them); EventReader.read_all yields
\* a subsequence of the appended events and, when no crash has cut a line,
\* all of them.
C3_AppendOrderPreserved ==
    /\ impl = "InMemoryLedger" =>
         /\ MemIterAll(mem_events) = log
         /\ ~overlapped =>
              \A aid \in ArtifactIds :
                  IsSubseq(MemIterArtifact(by_artifact, aid), log)
    /\ impl = "Ledger" =>
         /\ SqlIterAll(sql_events) = log
         /\ \A aid \in ArtifactIds :
                IsSubseq(SqlIterArtifact(sql_events, sql_refs, aid), log)
    /\ impl = "EventWriter" =>
         LET read == ReadAll(segments) IN
         /\ IsSubseq(read.events, log)
         /\ (crashes = 0 /\ w_pc = "idle") =>
              (read.events = log /\ ~read.raised)

\* the event with the later timestamp was appended first, the other one
\* after midnight, and read_all yields them in append order
C3_Witness ==
    /\ impl = "EventWriter"
    /\ crashes = 0
    /\ returned = <<WEvent("w1"), WEvent("w2")>>
    /\ DOMAIN segments = {1, 2}
    /\ ReadAll(segments).events = returned

\* C4: under any interleaving of append calls by several threads, the
\* sequence numbers returned are unique and gapless (the n-th append to
\* enter the store returns n), and once no append is in progress
\* latest_sequence() equals count().
C4_SequenceNumbersGapless ==
    /\ impl \in {"InMemoryLedger", "Ledger"} =>
         \A i \in 1..Len(committed) : Numbers(committed, 1)[i] = i
    /\ (impl = "InMemoryLedger" /\ ~Busy) =>
         MemLatestSequence(mem_events) = MemCount(mem_events)
    /\ (impl = "Ledger" /\ ~Busy) =>
         SqlLatestSequence(sql_events) = SqlCount(sql_events)

\* the part of C4 that concerns the SQLite Ledger alone
SqlSequenceNumbersGapless == impl = "Ledger" => C4_SequenceNumbersGapless

\* C5: every event whose append returned is in the ledger as a complete
\* line of its own, also after a crash.
C5_ReturnedEventsAreLines ==
    impl = "EventWriter" => IsSubseq(returned, WellFormedEvents(segments))

\* what does hold: append returns only once its text is on disk
ReturnedTextIsDurable ==
    (impl = "EventWriter" /\ w_pc = "synced") =>
        /\ synced[w_path] = Len(segments[w_path])
        /\ Len(segments[w_path]) >= 2
        /\ SubSeq(segments[w_path], Len(segments[w_path]) - 1,
                  Len(segments[w_path])) = <<JsonDumps(w_event[1]), NL>>

\* C6 as stated: no event that fails schema validation is ever written.
C6_InvalidNeverWritten ==
    \A id \in WrittenIds : ValidateStrict(WEvent(id))

C6_RejectedStep ==
    w_result' = "ValueError" => (segments' = segments /\ synced' = synced)

\* C6, for a writer with strict=True: an event that fails schema validation
\* is never written, and an append that raises ValueError leaves every
\* segment as it was (this last part in either mode).
C6_StrictWriterRejectsInvalid ==
    /\ [](strict => C6_InvalidNeverWritten)
    /\ [][C6_RejectedStep]_vars

\* a strict writer that has written a valid event has just rejected the
\* confidence event, whose payload lacks artifact_id
C6_Witness ==
    /\ impl = "EventWriter"
    /\ strict
    /\ w_result = "ValueError"
    /\ w_event = <<WEvent("w3")>>
    /\ returned = <<WEvent("w1")>>
    /\ WrittenIds = {"w1"}

\* C7: read_all never raises on a malformed line and yields every
\* well-formed event before and after it.
C7_ReadAllSkipsMalformed ==
    impl = "EventWriter" =>
        /\ ~ReadAll(segments).raised
        /\ ReadAll(segments).events = WellFormedEvents(segments)


\* the UTC calendar date of the capture timestamp of an event (the model
\* counts timestamps in days)
CaptureDate(event) == event["ts"][2]

\* C22: EventWriter.append writes each event into the daily segment named by
\* the UTC calendar date of the event's own capture timestamp (ts): every
\* line of the segment of day D is an event captured on day D.
C22_SegmentIsCaptureDate ==
    impl = "EventWriter" =>
        \A d \in DOMAIN segments :
            \A i \in DOMAIN FileLines(segments[d]) :
                Parses(FileLines(segments[d])[i]) =>
                    CaptureDate(JsonLoads(FileLines(segments[d])[i])) = d

\* every append writes into the segment of the UTC date the wall clock
\* shows when the call holds the lock
SegmentIsWallClockDate ==
    impl = "EventWriter" /\ w_pc # "idle" => w_path = utc_day \/ w_path = utc_day - 1

\* a call of append has just raised ValueError
AppendRaised ==
    /\ w_result' = "ValueError"
    /\ <<w_event, w_result>>' # <<w_event, w_result>>

\* the call that raises creates and modifies no ledger file
C23_RaiseStep == AppendRaised => UNCHANGED <<segments, synced>>

\* after a call that raised, append of an event that passes the checks goes
\* on to write
StillAccepts ==
    (impl = "EventWriter" /\ w_result = "ValueError" /\ calls < MaxAppends) =>
        \A e \in WriterPool : Accepted(e, strict) => ENABLED AppendWrite(e)

\* C23: whenever EventWriter.append raises ValueError (event_id or
\* event_type missing, or in strict mode validate_strict reports errors) the
\* call creates and modifies no ledger file, and later appends of valid
\* events still succeed.
C23_RejectedAppendWritesNothing == [][C23_RaiseStep]_vars /\ []StillAccepts

\* a strict writer has written an event and then rejected another one that
\* has an event_id and an event_type
C23_Witness ==
    /\ impl = "EventWriter"
    /\ strict
    /\ w_result = "ValueError"
    /\ BasicOnly(w_event[1], strict)
    /\ Len(returned) = 1
    /\ \E d \in DOMAIN segments : Len(FileLines(segments[d])) = 1

\* the segment holds text a crash cut short: a piece that is not the
\* newline and is followed by no newline
Truncated(content) ==
    \E i \in 1..Len(content) :
        /\ content[i] # NL
        /\ (i = Len(content) \/ content[i + 1] # NL)

\* the event is one of the events of the sequence
OneOf(event, events) == \E i \in 1..Len(events) : events[i] = event

\* C31: if a crash leaves a truncated last line without a line terminator
\* in the current segment, every event appended afterwards is still stored
\* as its own complete line and read back intact by read_all.
C31_TruncationStaysConfined ==
    (impl = "EventWriter" /\ w_pc = "synced" /\ crashes > 0
        /\ Truncated(SubSeq(segments[w_path], 1,
                            Len(segments[w_path]) - 2))) =>
        /\ OneOf(w_event[1], WellFormedEvents(segments))
        /\ OneOf(w_event[1], ReadAll(segments).events)

\* what does hold: while no segment holds truncated text, the event of an
\* append that reached the disk is a line of its own and is read back
UntruncatedIsReadBack ==
    (impl = "EventWriter" /\ w_pc = "synced"
        /\ \A d \in DOMAIN segments : ~Truncated(segments[d])) =>
        /\ OneOf(w_event[1], WellFormedEvents(segments))
        /\ OneOf(w_event[1], ReadAll(segments).events)

(***************************************************************************)
(* Snapshot claims                                                         *)
(***************************************************************************)
CompleteSnapshot(f) ==
    f = None \/ \E artifacts \in SnapInputs : f[1].content = SnapText(artifacts, 1)

C8_State == CompleteSnapshot(snap_file) /\ CompleteSnapshot(snap_disk)

C8_Step ==
    snap_file' # snap_file =>
        \/ /\ s_pc = "closed"
           /\ s_result' = "returned"
           /\ tmp_file # None
           /\ tmp_file[1].content = SnapText(s_artifacts, 1)
           /\ tmp_file[1].synced = Len(tmp_file[1].content)
           /\ snap_file' = tmp_file
        \/ /\ s_crashes' = s_crashes + 1
           /\ snap_file' = snap_disk

\* C8: the canonical snapshot file changes only by the rename of a temp file
\* that holds the whole snapshot and has been flushed and fsynced (or, in a
\* crash, by falling back to the previous file of that name); a call that
\* fails or crashes before the rename leaves it as it was, so it is always a
\* complete snapshot or absent, never a partial one.
C8_AtomicSnapshot == [](C8_State) /\ [][C8_Step]_vars

\* the second write_snapshot crashed after flush: its temp file holds a cut
\* line and the canonical file is still the first snapshot
C8_Witness ==
    /\ s_result = "crashed"
    /\ s_calls = 2
    /\ snap_file = Some(File(SnapText(<<"a1">>, 1), 2))
    /\ tmp_file # None
    /\ tmp_file[1].content = << <<"cut", "a2">> >>

(***************************************************************************)
(* Projector claims                                                        *)
(***************************************************************************)
RelationKey(rel) == <<rel.source_id, rel.target_id, rel.relation_type>>

\* at most one relation per key, and the index maps every key, and nothing
\* else, to the 0-based position of its relation
RelationsIndexed(rp) ==
    /\ \A i, j \in DOMAIN rp.relations :
          RelationKey(rp.relations[i]) = RelationKey(rp.relations[j]) => i = j
    /\ DOMAIN rp.index = { RelationKey(rp.relations[i]) : i \in DOMAIN rp.relations }
    /\ \A i \in DOMAIN rp.relations :
          rp.index[RelationKey(rp.relations[i])] = i - 1

\* live.apply of a RELATION_PROPOSED event for a key that is present: the
\* relation at that position has the confidence of the event, every other
\* relation and the index are as before, no entry is added
C16_UpsertStep ==
    (live_pos' = live_pos + 1) =>
        LET e   == mem_events[live_pos + 1]
            old == live.relations
            new == live'.relations
            key == <<e.artifact_refs[1], e.artifact_refs[2],
                     GetDefault(e.payload, "relation_type", "unknown")>>
        IN (/\ e.event_type = "RELATION_PROPOSED"
            /\ Len(e.artifact_refs) >= 2
            /\ key \in DOMAIN old.index) =>
              /\ Len(new.relations) = Len(old.relations)
              /\ new.index = old.index
              /\ \A i \in DOMAIN old.relations :
                    IF RelationKey(old.relations[i]) = key
                    THEN /\ RelationKey(new.relations[i]) = key
                         /\ new.relations[i].confidence_score =
                                GetDefault(e.payload, "confidence_score", 0)
                    ELSE new.relations[i] = old.relations[i]

\* C16: after RelationProjector has applied any sequence of events its state
\* holds at most one relation per (source, target, relation_type); a
\* RELATION_PROPOSED event for an existing key replaces that relation's
\* confidence at the same position and adds no entry; the index maps every
\* key to the position of its relation.
C16_RelationUpsert ==
    /\ [](RelationsIndexed(live.relations) /\ RelationsIndexed(engine.relations))
    /\ [][C16_UpsertStep]_vars

\* a re-proposal was applied: one relation, with the later confidence
C16_Witness ==
    /\ live_pos = 2
    /\ mem_events[1].event_id = "e12"
    /\ mem_events[2].event_id = "e13"
    /\ Len(live.relations.relations) = 1
    /\ live.relations.relations[1].confidence_score = Some(9)
    /\ live.relations.index = (<<"a1", "a2", Some("imports")>> :> 0)

(***************************************************************************)
(* Replay claims                                                           *)
(***************************************************************************)
\* the first n events of a history
Prefix(events, n) == SubSeq(events, 1, n)

\* the event types some reducer of reducers.py handles
ReducerHandled ==
    ArtifactReduced \cup {"RELATION_PROPOSED", "TAGS_PROPOSED", "CONFLICT_DETECTED"}

\* ArtifactProjector.apply of an event without a handler leaves the
\* snapshots of the engine as they were
UnhandledIsNoOpInProjector ==
    p_state # None =>
        \A i \in DOMAIN p_events :
            p_events[i].event_type \notin ArtifactHandled =>
                ApplyFrom(NewEngine, Prefix(p_events, i), 1).artifacts
                    = ApplyFrom(NewEngine, Prefix(p_events, i - 1), 1).artifacts

\* project_artifacts gives the same state with and without a last event of
\* a type no reducer handles
UnhandledIsNoOpInReducer ==
    r_state # None =>
        \A i \in DOMAIN r_events :
            TypeOf(r_events[i]) \notin ReducerHandled =>
                ProjectArtifacts(Prefix(r_events, i))
                    = ProjectArtifacts(Prefix(r_events, i - 1))

\* C15: applying an event whose event_type no reducer handles leaves the
\* projected state exactly as it was (no artifact record is created or
\* changed), both for ArtifactProjector.apply and for project_artifacts.
C15_UnhandledIsNoOp == UnhandledIsNoOpInProjector /\ UnhandledIsNoOpInReducer

\* C17: project_relations (and so aggregate_state) returns at most one
\* relation entry per (source_id, target_id, relation_type); a re-proposal
\* replaces the confidence of the earlier entry and adds no second entry.
C17_OneRelationPerKey ==
    r_state # None =>
        \A source \in DOMAIN r_state[1].relations :
            LET list == r_state[1].relations[source] IN
            \A i, j \in DOMAIN list :
                (/\ list[i].target_id = list[j].target_id
                 /\ list[i].relation_type = list[j].relation_type) => i = j

\* the positions of the events of a type, in order
RECURSIVE Positions(_, _, _)
Positions(types, type, i) ==
    IF i > Len(types) THEN <<>>
    ELSE IF types[i] = type THEN <<i>> \o Positions(types, type, i + 1)
    ELSE Positions(types, type, i + 1)

\* the conflict list of the reducers: one record per conflict event, in
\* event order, and what a prefix of the history gave is still there
ConflictsKeptByReducer ==
    r_state # None =>
        LET at == Positions([i \in DOMAIN r_events |-> TypeOf(r_events[i])],
                            "CONFLICT_DETECTED", 1)
            conflicts == r_state[1].conflicts
        IN /\ Len(conflicts) = Len(at)
           /\ \A k \in DOMAIN at :
                 /\ conflicts[k].conflict_id = r_events[at[k]]["event_id"]
                 /\ conflicts[k].detected_at = r_events[at[k]]["ts"]
                 /\ conflicts[k].conflict_type =
                        JGet(PayloadOf(r_events[at[k]]), "conflict_type")
                 /\ conflicts[k].description =
                        JGet(PayloadOf(r_events[at[k]]), "description")
           /\ \A n \in 0..Len(r_events) :
                 IsPrefix(ProjectConflicts(Prefix(r_events, n)), conflicts)

\* the same for the ConflictProjector of the engine
ConflictsKeptByProjector ==
    p_state # None =>
        LET at == Positions([i \in DOMAIN p_events |-> p_events[i].event_type],
                            "CONFLICT_DETECTED", 1)
            conflicts == p_state[1].conflicts
        IN /\ Len(conflicts) = Len(at)
           /\ \A k \in DOMAIN at :
                 /\ conflicts[k].event_id = p_events[at[k]].event_id
                 /\ conflicts[k].detected_at = p_events[at[k]].timestamp
                 /\ conflicts[k].artifact_ids = p_events[at[k]].artifact_refs
           /\ \A n \in 0..Len(p_events) :
                 IsPrefix(ApplyFrom(NewEngine, Prefix(p_events, n), 1).conflicts,
                          conflicts)

\* C18: after any event sequence the conflict projection (ConflictProjector,
\* project_conflicts) holds exactly one record per conflict-detected event
\* applied, in event order; a further event never changes, merges or removes
\* a record, also when two conflict events have identical content.
C18_ConflictsAppendOnly == ConflictsKeptByReducer /\ ConflictsKeptByProjector

\* the same conflict event twice, another event in between: two equal records
C18_Witness ==
    /\ r_state # None
    /\ Len(r_events) = 3
    /\ r_events[1] = r_events[3]
    /\ TypeOf(r_events[1]) = "CONFLICT_DETECTED"
    /\ TypeOf(r_events[2]) = "RELATION_PROPOSED"
    /\ Len(r_state[1].conflicts) = 2
    /\ r_state[1].conflicts[1] = r_state[1].conflicts[2]

\* the locator an event carries for project_artifacts, None if it has none
CarriedLocator(event) ==
    LET payload == PayloadOf(event) IN
    CASE TypeOf(event) = "ARTIFACT_SEEN" ->
           IF "path" \in DOMAIN payload THEN Some(payload["path"])
           ELSE IF "locator" \in DOMAIN payload THEN Some(payload["locator"])
           ELSE None
      [] TypeOf(event) = "ARTIFACT_OBSERVED" ->
           IF "locator" \in DOMAIN payload THEN Some(payload["locator"])
           ELSE None
      [] OTHER -> None

\* the fingerprint an event carries for project_artifacts, None if it has none
CarriedFingerprint(event) ==
    LET payload == PayloadOf(event) IN
    CASE TypeOf(event) = "ARTIFACT_SEEN" ->
           IF "content_hash" \in DOMAIN payload
           THEN Some(payload["content_hash"]) ELSE None
      [] TypeOf(event) = "ARTIFACT_OBSERVED" ->
           IF "fingerprint" \in DOMAIN payload
           THEN Some(payload["fingerprint"]) ELSE None
      [] TypeOf(event) = "FINGERPRINT_COMPUTED" ->
           IF "hash" \in DOMAIN payload THEN Some(payload["hash"])
           ELSE IF "fingerprint" \in DOMAIN payload
           THEN Some(payload["fingerprint"])
           ELSE IF "content_hash" \in DOMAIN payload
           THEN Some(payload["content_hash"]) ELSE None
      [] OTHER -> None

\* what the last event of an artifact that carries a value carries, Python's
\* None if no event of the artifact carries one
LastCarried(events, aid, Carried(_)) ==
    LET at == { i \in DOMAIN events :
                  EventArtifactId(events[i]) = Some(aid)
                      /\ Carried(events[i]) # None }
    IN IF at = {} THEN JNone
       ELSE Carried(events[CHOOSE i \in at : \A j \in at : j <= i])[1]

\* C19: project_artifacts gives each artifact the locator and the fingerprint
\* carried by the last event, in sequence order, that carries one, whatever
\* the ts values of the events are; ARTIFACT_SEEN followed by
\* FINGERPRINT_COMPUTED yields that locator and that content hash.
C19_LastWriteWins ==
    r_state # None =>
        \A aid \in DOMAIN r_state[1].artifacts :
            /\ r_state[1].artifacts[aid]["locator"] =
                   LastCarried(r_events, aid, CarriedLocator)
            /\ r_state[1].artifacts[aid]["fingerprint"] =
                   LastCarried(r_events, aid, CarriedFingerprint)

\* seen at /x with hash h1 at ts 2, then fingerprinted h2 at ts 1: the
\* locator of the first event and the hash of the second
C19_Witness ==
    /\ r_state # None
    /\ Len(r_events) = 2
    /\ TypeOf(r_events[1]) = "ARTIFACT_SEEN"
    /\ TypeOf(r_events[2]) = "FINGERPRINT_COMPUTED"
    /\ r_events[2]["ts"][2] < r_events[1]["ts"][2]
    /\ r_state[1].artifacts["a1"]["locator"] = JStr("/x")
    /\ r_state[1].artifacts["a1"]["fingerprint"] = JStr("h2")
    /\ r_state[1].artifacts["a1"]["last_seen_at"] = r_events[1]["ts"]

\* the history without the event at position j
WithoutPosition(events, j) ==
    [i \in 1..(Len(events) - 1) |-> IF i < j THEN events[i] ELSE events[i + 1]]

\* the positions of a history that deliver again an event delivered before
\* (the same event_id, the same content)
Redelivered(events) ==
    { j \in DOMAIN events : \E i \in 1..(j - 1) : events[i] = events[j] }

\* the reducers give the same artifacts, relations and conflicts with and
\* without a redelivered event
ReducersIdempotent ==
    r_state # None =>
        \A j \in Redelivered(r_events) :
            LET once == AggregateState(WithoutPosition(r_events, j))
            IN  /\ r_state[1].artifacts = once.artifacts
                /\ r_state[1].relations = once.relations
                /\ r_state[1].conflicts = once.conflicts

\* the projectors give the same artifacts, relations and conflicts with and
\* without a redelivered event
ProjectorsIdempotent ==
    p_state # None =>
        \A j \in Redelivered(p_events) :
            LET once == ApplyFrom(NewEngine, WithoutPosition(p_events, j), 1)
            IN  /\ p_state[1].artifacts = once.artifacts
                /\ p_state[1].relations = once.relations
                /\ p_state[1].conflicts = once.conflicts

\* C21: the reducers are idempotent under at-least-once delivery: a stream
\* in which an event occurs twice (same event_id, same content) projects to
\* the same artifact, relation and conflict state as the stream in which the
\* event occurs once.
C21_ReducersIdempotent == ReducersIdempotent /\ ProjectorsIdempotent

\* redelivery leaves the relations of the RelationProjector as they were:
\* the second delivery replaces the relation by an equal one
RelationProjectorIdempotent ==
    p_state # None =>
        \A j \in Redelivered(p_events) :
            p_state[1].relations
                = ApplyFrom(NewEngine, WithoutPosition(p_events, j), 1).relations

(***************************************************************************)
(* get_state claims                                                        *)
(***************************************************************************)
\* C20: a caller cannot change projector-internal state through the value
\* get_state() returned: after any mutation of the returned collection or of
\* the snapshot, relation or conflict objects inside it, a later get_state()
\* with no apply in between equals what the earlier call returned before
\* the mutation.
C20_GetStateIsDefensive ==
    g_returned # None =>
        LET which == g_view[1].of IN
        Deref(g_engine, which, ProjectorGetState(g_engine, which))
            = g_returned[1]

\* mutating the returned collection itself changes nothing in the engine
CollectionIsCopied ==
    [][(g_view # None /\ g_view' # None /\ g_applied' = g_applied
            /\ g_view'[1].of = g_view[1].of
            /\ g_view'[1].items # g_view[1].items)
        => g_engine' = g_engine]_vars

(***************************************************************************)
(* Validator claims                                                        *)
(***************************************************************************)
\* the violated rules of an event, by path: missing or wrongly typed
\* envelope fields, an unknown event_type, missing or wrongly typed actor
\* fields, missing or wrongly typed payload fields (an optional field may
\* be absent or None)
ViolatedRules(event) ==
    { <<f>> : f \in
        { g \in DOMAIN EnvelopeRequired :
            g \notin DOMAIN event \/ ~IsInstance(event[g], EnvelopeRequired[g]) } }
    \cup
    { <<f>> : f \in
        { g \in DOMAIN EnvelopeOptional :
            /\ g \in DOMAIN event
            /\ event[g] # JNone
            /\ ~IsInstance(event[g], EnvelopeOptional[g]) } }
    \cup
    (IF /\ "event_type" \in DOMAIN event
        /\ event["event_type"][1] = "str"
        /\ event["event_type"][2] \notin EventTypes
     THEN {<<"event_type">>} ELSE {})
    \cup
    (IF "actor" \in DOMAIN event /\ event["actor"][1] = "dict"
     THEN LET actor == event["actor"][2] IN
          { <<"actor", f>> : f \in
              { g \in DOMAIN ActorRequired :
                  g \notin DOMAIN actor \/ ~IsInstance(actor[g], ActorRequired[g]) } }
     ELSE {})
    \cup
    (IF /\ "payload" \in DOMAIN event /\ event["payload"][1] = "dict"
        /\ "event_type" \in DOMAIN event
        /\ event["event_type"][1] = "str"
        /\ event["event_type"][2] \in DOMAIN PayloadSchemas
     THEN LET payload == event["payload"][2]
              schema == PayloadSchemas[event["event_type"][2]]
          IN { <<"payload", f>> : f \in
                 { g \in DOMAIN schema :
                     IF schema[g].required
                     THEN g \notin DOMAIN payload
                             \/ ~IsInstance(payload[g], schema[g].types)
                     ELSE /\ g \in DOMAIN payload
                          /\ payload[g] # JNone
                          /\ ~IsInstance(payload[g], schema[g].types) } }
     ELSE {})

\* C13: validate_strict returns, in one call, valid = FALSE with exactly one
\* error for every violated rule of the event (envelope fields, unknown
\* event_type, actor fields, payload fields) and no other error; an
\* ARTIFACT_SEEN event whose only defect is a missing payload locator yields
\* exactly the error payload.locator.
C13_EveryViolationReported ==
    v_result # None =>
        /\ v_result[1].errors = ViolatedRules(v_event)
        /\ v_result[1].valid = (ViolatedRules(v_event) = {})

\* Scenario D on its own: the only defect is the missing payload locator
ScenarioD_MissingLocator ==
    (v_result # None
        /\ v_event = VEvent("ARTIFACT_SEEN", "none", "none", "no_locator")) =>
        v_result[1] = [valid |-> FALSE, errors |-> {<<"payload", "locator">>}]

\* with a good envelope, every violated rule but a None in a required
\* payload field is reported, and nothing else
GoodEnvelopeReportsAll ==
    (v_result # None /\ ValidateEnvelope(v_event) = {}) =>
        \A path \in ViolatedRules(v_event) \ v_result[1].errors :
            /\ path[1] = "payload"
            /\ v_event["payload"][2][path[2]] = JNone

\* C14: an event whose required payload field is present with the value
\* None is reported invalid, with an error at payload.<field> (events whose
\* envelope is good and whose event_type has a payload schema).
C14_RequiredNoneRejected ==
    (/\ v_result # None
     /\ ValidateEnvelope(v_event) = {}
     /\ v_event["event_type"][2] \in DOMAIN PayloadSchemas) =>
        LET payload == v_event["payload"][2]
            schema == PayloadSchemas[v_event["event_type"][2]]
        IN \A f \in DOMAIN schema :
            (schema[f].required /\ f \in DOMAIN payload /\ payload[f] = JNone)
                => /\ ~v_result[1].valid
                   /\ <<"payload", f>> \in v_result[1].errors

(***************************************************************************)
(* Budget time accounting claims                                           *)
(***************************************************************************)
\* what is derived from elapsed_seconds
TimeDerived == <<ElapsedSeconds, TimeExhausted, RemainingTime, Summary>>

\* while start() was the last of start() / stop(), elapsed_seconds is the
\* clock time passed since that start()
C11_Running == timing = "started" => ElapsedSeconds = now - started_at

\* once stop() was the last of the two, a clock advance changes nothing
C11_FrozenStep ==
    (timing = "stopped" /\ now' # now /\ limits' = limits) =>
        TimeDerived' = TimeDerived

\* C11: after Budget.stop(), elapsed_seconds and what is derived from it
\* (the time test of any_exhausted, remaining(TIME), summary) stay at the
\* value reached at stop() however far the clock advances; between start()
\* and stop() elapsed_seconds is the clock time passed since start().
C11_ElapsedFreezesAtStop == [](C11_Running) /\ [][C11_FrozenStep]_vars

\* the frozen half of C11 on its own
ElapsedFrozenAfterStop == [][C11_FrozenStep]_vars

\* a budget started once and never stopped before: the running half of C11
FirstRunTracksClock ==
    (timing = "started" /\ ended_at = NoTime) =>
        ElapsedSeconds = now - started_at

(***************************************************************************)
(* Budget exhaustion claims                                                *)
(***************************************************************************)
\* C33: in every reachable Budget state (start, stop, clock advance and
\* consume on any kind, TIME included), any_exhausted is true exactly when
\* exhausted_budgets is non-empty.
C33_AnyExhaustedIffListed == AnyExhausted <=> (ExhaustedBudgets # <<>>)

\* what does hold: the two agree while nothing was consumed from TIME up to
\* its limit
AgreeWithoutTimeConsumed ==
    ~("TIME" \in DOMAIN limits /\ LimitExhausted(limits["TIME"])) =>
        (AnyExhausted <=> (ExhaustedBudgets # <<>>))

\* exhaustion is kept by a step
StaysExhausted == AnyExhausted => AnyExhausted'

\* C34: once any_exhausted has become true it stays true under every later
\* operation (consume, stop(), a further start(), clock advance), and
\* elapsed_seconds is never negative.
C34_ExhaustionIsPermanent == [][StaysExhausted]_vars /\ [](ElapsedSeconds >= 0)

\* what does hold: every step but start() keeps exhaustion
ExhaustionSurvivesAllButStart ==
    [][started_at' = started_at => StaysExhausted]_vars

\* what does hold: a budget that was never stopped has no negative
\* elapsed_seconds
NeverStoppedIsNonNegative == ended_at = NoTime => ElapsedSeconds >= 0

\* DEPTH is listed by exhausted_budgets
DepthListed == \E i \in 1..Len(ExhaustedBudgets) : ExhaustedBudgets[i] = "DEPTH"

\* C35: a DEPTH limit never counts as exhausted: for every depth limit >= 0
\* and every sequence of at_depth and consume calls on other kinds, DEPTH
\* is not in exhausted_budgets, and a guard whose only limit is a depth
\* limit always lets the scan continue.
C35_DepthNeverExhausted ==
    "DEPTH" \in DOMAIN limits =>
        /\ ~DepthListed
        /\ DOMAIN limits = {"DEPTH"} =>
              /\ ~AnyExhausted
              /\ b_call.op = "can_continue" => b_call.ret

\* what does hold: a depth limit of 1 or more never counts as exhausted
PositiveDepthNeverExhausted ==
    ("DEPTH" \in DOMAIN limits /\ limits["DEPTH"].limit >= 1) =>
        /\ ~DepthListed
        /\ DOMAIN limits = {"DEPTH"} =>
              /\ ~AnyExhausted
              /\ b_call.op = "can_continue" => b_call.ret

(***************************************************************************)
(* Budget claims                                                           *)
(***************************************************************************)
Limited(k) == k \in DOMAIN limits

\* a total is within its limit; a kind without a limit is always within
Within(lim, k) == k \in DOMAIN lim => lim[k].consumed <= lim[k].limit

C9_ConsumeStep ==
    (b_call'.op = "consume" /\ Limited(b_call'.kind)) =>
        LET k == b_call'.kind IN
        /\ limits'[k].consumed = limits[k].consumed + b_call'.amount
        /\ limits'[k].limit = limits[k].limit
        /\ b_call'.ret = (limits'[k].consumed <= limits'[k].limit)

C9_ConsumeFileStep ==
    b_call'.op = "consume_file" =>
        /\ files_processed' = files_processed + 1
        /\ bytes_processed' = bytes_processed + b_call'.amount
        /\ Limited("FILES_SCANNED") =>
              limits'["FILES_SCANNED"].consumed = limits["FILES_SCANNED"].consumed + 1
        /\ Limited("BYTES_READ") =>
              limits'["BYTES_READ"].consumed =
                  limits["BYTES_READ"].consumed + b_call'.amount
        /\ b_call'.ret = (Within(limits', "FILES_SCANNED") /\ Within(limits', "BYTES_READ"))
        /\ (Limited("FILES_SCANNED")
              /\ files_processed' > limits["FILES_SCANNED"].limit) => ~b_call'.ret

\* C9: Budget.consume on a limited kind adds the full amount to the consumed
\* total, also past the limit, and returns TRUE exactly when the total after
\* the call is <= the limit; BudgetGuard.consume_file records one file and
\* size bytes on every call and returns TRUE exactly when both totals are
\* within their limits, so with a files limit N call N+1 returns FALSE.
C9_ConsumeRecordsAndReports == [][C9_ConsumeStep /\ C9_ConsumeFileStep]_vars

\* the (N+1)-th consume_file call under a files limit N: recorded, and FALSE
C9_Witness ==
    /\ b_call.op = "consume_file"
    /\ Limited("FILES_SCANNED")
    /\ limits["FILES_SCANNED"].limit = 2
    /\ files_processed = 3
    /\ limits["FILES_SCANNED"].consumed = 3
    /\ ~b_call.ret

C10_Monotone ==
    \A k \in DOMAIN limits : limits'[k].consumed >= limits[k].consumed

C10_State ==
    Limited("BYTES_READ") =>
        /\ requested["BYTES_READ"] > limits["BYTES_READ"].limit => AnyExhausted
        /\ Remaining("BYTES_READ") >= 0

\* C10: with a bytes limit L and consume calls of non-negative amounts, the
\* consumed total never decreases, any_exhausted is TRUE once the amounts
\* total more than L, and remaining(BYTES_READ) is >= 0 in every state.
C10_BudgetMonotonicity == [](C10_State) /\ [][C10_Monotone]_vars

\* the amounts total more than the bytes limit: exhausted, nothing remains
C10_Witness ==
    /\ Limited("BYTES_READ")
    /\ requested["BYTES_READ"] > limits["BYTES_READ"].limit + 1
    /\ limits["BYTES_READ"].limit >= 1
    /\ AnyExhausted
    /\ Remaining("BYTES_READ") = 0

\* a can_consume call: nothing but the record of the call changes, and the
\* value is the one consume would return in the state of the call
C12_CanConsumeStep ==
    (b_call' # b_call /\ b_call'.op = "can_consume") =>
        /\ limits' = limits
        /\ <<started_at', ended_at'>> = <<started_at, ended_at>>
        /\ <<files_processed', bytes_processed'>> =
               <<files_processed, bytes_processed>>
        /\ b_call'.ret =
               BudgetConsumeResult(limits, b_call'.kind, b_call'.amount)

\* an at_depth call: nothing but the record of the call changes, and the
\* value is TRUE exactly without a depth limit or with depth <= the limit
C12_AtDepthStep ==
    (b_call' # b_call /\ b_call'.op = "at_depth") =>
        /\ limits' = limits
        /\ <<started_at', ended_at'>> = <<started_at, ended_at>>
        /\ <<files_processed', bytes_processed'>> =
               <<files_processed, bytes_processed>>
        /\ b_call'.ret = (~Limited("DEPTH")
                            \/ b_call'.amount <= limits["DEPTH"].limit)

\* C12: can_consume(kind, amount) and at_depth(depth) change no consumed
\* counter and no start / stop time; can_consume returns the value consume
\* would return in the same state; at_depth(d) is TRUE exactly when there is
\* no depth limit or d <= the limit, whatever was consumed before.
C12_LookAheadIsPure == [][C12_CanConsumeStep /\ C12_AtDepthStep]_vars

\* can_consume refuses one more byte of a started budget whose bytes limit is
\* used up, after depth was consumed past its limit as well
C12_Witness ==
    /\ b_call.op = "can_consume"
    /\ b_call.kind = "BYTES_READ"
    /\ b_call.amount = 1
    /\ ~b_call.ret
    /\ Limited("BYTES_READ") /\ limits["BYTES_READ"].consumed = 1
    /\ Limited("DEPTH") /\ limits["DEPTH"].consumed > limits["DEPTH"].limit
    /\ started_at # NoTime

(***************************************************************************)
(* Confidence claims                                                       *)
(***************************************************************************)
EvolutionSteps == {"reinforce", "reduce", "decay"}

\* reduce_on_contradiction returns a confidence in [0.05, 1.0]
ReduceInRange ==
    c_last.op = "reduce" => c_last.score \in ConfFloor..Unit

\* reinforce returns a confidence in [0.0, 1.0]
ReinforceInRange ==
    c_last.op = "reinforce" => c_last.score \in 0..Unit

\* effective_score is in [0.0, 1.0]
EffectiveInRange ==
    c_last.op = "effective_score" => c_last.score \in 0..Unit

\* apply_freshness_decay returns a confidence in [0.05, 1.0]
DecayInRange ==
    c_last.op = "decay" => c_last.score \in ConfFloor..Unit

\* C24: for every current_confidence in [0, 1], strength and volatility in
\* [0, 1] and recurring count >= 0, reduce_on_contradiction and
\* apply_freshness_decay return a value in [0.05, 1.0], reinforce returns a
\* value in [0.0, 1.0] and effective_score is in [0.0, 1.0].
C24_ScoresInRange ==
    ReduceInRange /\ DecayInRange /\ ReinforceInRange /\ EffectiveInRange

\* apply_freshness_decay of a confidence that is at least 0.05 returns a
\* confidence in [0.05, 1.0]
DecayKeepsFloor ==
    (c_last.op = "decay" /\ c_last.input >= ConfFloor) =>
        c_last.score \in ConfFloor..Unit

\* the events the last call appended
Appended == SubSeq(c_log, c_last.before + 1, Len(c_log))

\* the last call appended exactly one CONFIDENCE_UPDATED event that carries
\* the old score, the returned score, their difference, a reason and the
\* triggering event ids
OneUpdateLogged ==
    /\ Len(Appended) = 1
    /\ Appended[1].event_type = "CONFIDENCE_UPDATED"
    /\ Appended[1].payload.old_confidence = c_last.input
    /\ Appended[1].payload.new_confidence = c_last.score
    /\ Appended[1].payload.delta = c_last.score - c_last.input
    /\ Appended[1].payload.reason # ""
    /\ Appended[1].evidence_refs = TriggersDrawn
    /\ c_last.event_ids = <<Appended[1].event_id>>

\* the last call was apply_freshness_decay of an observation that is not in
\* the past, or one whose decay changes the score by less than 0.001
DecayIsTrivial ==
    /\ c_last.op = "decay"
    /\ LET age_hours == AgeHours(TimeTime, c_last.last_observed_ts)
           decayed == Max(ConfFloor, Decayed(c_last.input, age_hours,
                                             HalfLife(c_last.volatility)))
       IN  age_hours <= 0 \/ Abs(decayed - c_last.input) < Negligible

TrivialDecayIsSilent ==
    DecayIsTrivial =>
        /\ c_last.score = c_last.input
        /\ Appended = <<>>
        /\ c_last.event_ids = <<>>

\* C25: every evolution step (reinforce, reduce_on_contradiction,
\* apply_freshness_decay) that returns a score different from its input has
\* appended exactly one CONFIDENCE_UPDATED event carrying the old score, the
\* returned new score, delta = new - old, a reason and the triggering event
\* ids; apply_freshness_decay returns the input unchanged with no event
\* when age <= 0 or the change is below the negligible threshold.
C25_EveryChangeIsLogged ==
    /\ (c_last.op \in EvolutionSteps /\ c_last.score # c_last.input) =>
           OneUpdateLogged
    /\ TrivialDecayIsSilent

\* C25 as the code has it: an engine that was given a writer appends exactly
\* one such event in every step that returns a score different from its
\* input; an engine without a writer (the default) appends nothing and
\* returns no event id; a trivial decay returns its input and appends
\* nothing.
C25_ChangeIsLoggedByWriter ==
    /\ (c_writer /\ c_last.op \in EvolutionSteps
                 /\ c_last.score # c_last.input) => OneUpdateLogged
    /\ (~c_writer /\ c_last.op \in EvolutionSteps) =>
           (c_log = <<>> /\ c_last.event_ids = <<>>)
    /\ TrivialDecayIsSilent

\* Scenario C: confidence 0.6 decays with volatility 1.0 after 24 hours to
\* 0.3, and the writer holds one event for it
C25_Witness ==
    /\ c_writer
    /\ c_last.op = "decay"
    /\ c_last.input = 6 * Tenth
    /\ c_last.volatility = 10
    /\ AgeHours(TimeTime, c_last.last_observed_ts) = 24
    /\ c_last.score = 3 * Tenth
    /\ Len(Appended) = 1

\* the score a step returns, whatever it logs
DecayScore(confidence, last_observed_ts, volatility) ==
    DecayCall(NewWorld(FALSE), "a1", confidence, last_observed_ts, volatility,
              <<>>).score
ReduceScore(confidence, strength) ==
    ReduceCall(NewWorld(FALSE), "a1", confidence, strength, <<>>).score
ReinforceScore(confidence, count) ==
    ReinforceCall(NewWorld(FALSE), "a1", confidence, count, <<>>).score

\* the score after decay, then reduction if strength > 0, then
\* reinforcement if count > 0
InFixedOrder(call) ==
    LET decayed == DecayScore(call.input, call.last_observed_ts,
                              call.volatility)
        reduced == IF call.strength > 0
                   THEN ReduceScore(decayed, call.strength) ELSE decayed
    IN  IF call.count > 0 THEN ReinforceScore(reduced, call.count)
        ELSE reduced

\* the reasons of the events evolve_confidence appends, in order
ReasonsInOrder(call) ==
    (IF DecayScore(call.input, call.last_observed_ts, call.volatility)
            # call.input
     THEN <<"Freshness decay">> ELSE <<>>)
    \o (IF call.strength > 0 THEN <<"Reduced due to contradiction">>
        ELSE <<>>)
    \o (IF call.count > 0 THEN <<"Reinforced">> ELSE <<>>)

\* each appended event starts from the score the event before it ended with
EventsChained(call, events) ==
    /\ \A i \in 2..Len(events) :
           events[i].payload.old_confidence
               = events[i - 1].payload.new_confidence
    /\ events # <<>> =>
           /\ events[1].payload.old_confidence = call.input
           /\ events[Len(events)].payload.new_confidence = call.score

\* C30: evolve_confidence applies its steps and appends their events in the
\* order freshness decay, contradiction reduction (only when
\* contradiction_strength > 0), reinforcement (only when recurring_count >
\* 0); each step takes the score the previous step returned, the returned
\* event ids are in that order and the returned score is the output of the
\* last step applied.
C30_EvolveInFixedOrder ==
    c_last.op = "evolve" =>
        /\ c_last.score = InFixedOrder(c_last)
        /\ c_last.event_ids = [i \in DOMAIN Appended |-> Appended[i].event_id]
        /\ c_writer =>
               /\ [i \in DOMAIN Appended |-> Appended[i].payload.reason]
                      = ReasonsInOrder(c_last)
               /\ EventsChained(c_last, Appended)
        /\ ~c_writer => Appended = <<>>

\* 0.6 decayed over one half-life, reduced by a full contradiction and
\* reinforced by one recurrence, with three events
C30_Witness ==
    /\ c_writer
    /\ c_last.op = "evolve"
    /\ c_last.input = 6 * Tenth
    /\ c_last.strength = 10
    /\ c_last.count = 1
    /\ Len(c_log) = 3
    /\ c_log[1].payload.new_confidence = 3 * Tenth
    /\ c_log[2].payload.new_confidence = 3 * (Tenth \div 2)
    /\ c_last.score = c_log[3].payload.new_confidence
    /\ c_last.score > c_log[2].payload.new_confidence

(***************************************************************************)
(* FilesystemEye claims                                                    *)
(***************************************************************************)
\* the files of the walk, and the paths of the ARTIFACT_SEEN events
WalkFiles == { y_walk[i] : i \in { j \in DOMAIN y_walk : EyeTree[y_walk[j]].is_file } }
SeenAt == { i \in DOMAIN y_events : y_events[i].event_type = "ARTIFACT_SEEN" }
SeenPaths == { y_events[i].payload.path : i \in SeenAt }

\* observe has returned from a call with max_files = n and no byte or depth
\* budget, on a tree with more than n files
FileBudgetBinds(n) ==
    /\ y_pc = "returned"
    /\ y_budget.max_files = Some(n)
    /\ y_budget.max_bytes = None
    /\ y_budget.max_depth = None
    /\ Cardinality(WalkFiles) > n

\* C26: for any file-count budget max_files = N >= 0 (including 0) and a
\* tree with more than N eligible files, observe appends ARTIFACT_SEEN
\* events for exactly N files and returns files_seen = N and
\* stopped_reason = "max_files".
C26_StopsAtMaxFiles ==
    \A n \in 0..MaxFileLimit :
        FileBudgetBinds(n) =>
            /\ Cardinality(SeenAt) = n
            /\ Cardinality(SeenPaths) = n
            /\ y_files_seen = n
            /\ y_stopped_reason = Some("max_files")

\* what the code does for a budget of at least one file: exactly N files,
\* stopped_reason "file_budget_exceeded"
PositiveFileBudgetStops ==
    \A n \in 1..MaxFileLimit :
        FileBudgetBinds(n) =>
            /\ Cardinality(SeenAt) = n
            /\ Cardinality(SeenPaths) = n
            /\ y_files_seen = n
            /\ y_stopped_reason = Some("file_budget_exceeded")

\* what the code does for max_files = 0: every file, no stop
ZeroFileBudgetIsNoBudget ==
    FileBudgetBinds(0) =>
        /\ SeenPaths = WalkFiles
        /\ y_files_seen = Cardinality(WalkFiles)
        /\ y_stopped_reason = None

\* the files with at most d components below the root
FilesWithin(d) == { n \in WalkFiles : EyeTree[n].parts <= d }

\* C27: observe with max_depth = 1 observes only the files directly in the
\* root, and in general never observes a file whose path relative to the
\* root has more than max_depth components; the files that are too deep are
\* skipped without an event and without counting towards files_seen or
\* bytes_accounted (every file of the tree has size 1).
C27_DepthLimit ==
    \A d \in 1..MaxDepthLimit :
        y_budget.max_depth = Some(d) =>
            /\ SeenPaths \subseteq FilesWithin(d)
            /\ y_files_seen <= Cardinality(FilesWithin(d))
            /\ y_bytes_accounted <= Cardinality(FilesWithin(d))

\* what the code does for max_depth >= 1: it observes the files with at most
\* max_depth directories above them, that is max_depth + 1 components
DepthLimitCountsDirectories ==
    \A d \in 1..MaxDepthLimit :
        y_budget.max_depth = Some(d) =>
            /\ SeenPaths \subseteq FilesWithin(d + 1)
            /\ y_files_seen = Cardinality(SeenPaths)
            /\ (y_pc = "returned" /\ y_stopped_reason = None) =>
                   SeenPaths = FilesWithin(d + 1)

\* what the code does for max_depth = 0: no depth limit
ZeroDepthIsNoLimit ==
    (y_budget.max_depth = Some(0) /\ y_pc = "returned"
                                  /\ y_stopped_reason = None) =>
        SeenPaths = WalkFiles

(***************************************************************************)
(* read_snapshot claims                                                    *)
(***************************************************************************)
\* read_snapshot has returned or raised
ReadDone == d_result # None

\* the last record with a non-empty artifact_id on each id, over the
\* lines json.loads accepts for a record
RecordsRead(lines) ==
    LET ids == { lines[i][2] : i \in { k \in 1..Len(lines) :
                     lines[k][1] = "record" /\ lines[k][2] # "" } }
        last(id) == CHOOSE i \in 1..Len(lines) :
                        /\ lines[i][1] = "record" /\ lines[i][2] = id
                        /\ \A k \in (i + 1)..Len(lines) :
                               ~(lines[k][1] = "record" /\ lines[k][2] = id)
    IN  [id \in ids |-> [artifact_id |-> id, revision |-> lines[last(id)][3]]]

\* C28: read_snapshot returns an empty mapping when the file is missing and
\* otherwise every well-formed record that has an artifact_id, skipping
\* unparseable and blank lines without raising.
C28_ReadSkipsBadLines ==
    ReadDone =>
        /\ d_result[1].raised = ""
        /\ d_file = None => d_result[1].artifacts = <<>>
        /\ d_file # None => d_result[1].artifacts = RecordsRead(d_file[1])

\* a missing file reads as the empty mapping
MissingFileReadsEmpty ==
    (ReadDone /\ d_file = None) =>
        d_result[1] = [raised |-> "", artifacts |-> <<>>]

\* a file of records, cut records, words and blank lines reads as its
\* records that have an artifact_id, and nothing is raised
TextLinesAreSkipped ==
    (ReadDone /\ d_file # None
        /\ \A i \in 1..Len(d_file[1]) :
               d_file[1][i][1] \in {"record", "cut", "text", "blank"}) =>
        d_result[1] = [raised |-> "", artifacts |-> RecordsRead(d_file[1])]

\* a line that is JSON but no object, or no UTF-8, ends the read
OtherLinesRaise ==
    (ReadDone /\ d_file # None
        /\ \E i \in 1..Len(d_file[1]) :
               d_file[1][i][1] \in {"scalar", "bytes"}) =>
        d_result[1].raised \in {"AttributeError", "UnicodeDecodeError"}

(***************************************************************************)
(* Concurrent append claims                                                *)
(***************************************************************************)
\* the threads inside the open/write/flush/fsync section
InSection == { t \in Threads : k_pc[t] \in AppendSection }

\* the places <<day, i>> where a complete line of the event starts
WholeLinesOf(id) ==
    { p \in (1..MaxDay) \X (1..(2 * MaxWrites)) :
        /\ p[2] < Len(k_files[p[1]])
        /\ k_files[p[1]][p[2]] = <<id, "head">>
        /\ k_files[p[1]][p[2] + 1] = <<id, "tail">> }

\* the places <<day, i>> of the pieces of the event
PiecesOf(id) ==
    { p \in (1..MaxDay) \X (1..(2 * MaxWrites)) :
        /\ p[2] <= Len(k_files[p[1]])
        /\ k_files[p[1]][p[2]][1] = id }

\* at most one thread is inside the section
OneThreadInSection == Cardinality(InSection) <= 1

\* every head is followed by its own tail, or is the piece a thread in the
\* middle of flush() has just written; every tail follows its own head
NoInterleaving ==
    \A d \in 1..MaxDay : \A i \in 1..Len(k_files[d]) :
        LET piece == k_files[d][i]
        IN  /\ piece[2] = "head" =>
                \/ i < Len(k_files[d])
                     /\ k_files[d][i + 1] = <<piece[1], "tail">>
                \/ i = Len(k_files[d])
                     /\ \E t \in Threads :
                            /\ k_pc[t] = "written"
                            /\ k_line[t] = piece[1]
                            /\ k_path[t] = d
            /\ piece[2] = "tail" =>
                /\ i > 1
                /\ k_files[d][i - 1] = <<piece[1], "head">>

\* an event whose append returned has one complete line and no other piece
ReturnedIsWritten ==
    \A id \in k_returned :
        /\ Cardinality(WholeLinesOf(id)) = 1
        /\ Cardinality(PiecesOf(id)) = 2

\* C29: when several threads call append on one EventWriter, every call
\* that returns has written exactly one complete line holding its own
\* event: at most one thread is inside the open/write/flush/fsync section,
\* lines of different events are never interleaved and no event is lost.
C29_ConcurrentAppendsAreWhole ==
    /\ OneThreadInSection
    /\ NoInterleaving
    /\ ReturnedIsWritten

\* an append has returned, a second thread is in the middle of flush()
\* and a third call waits for the lock
C29_Witness ==
    /\ k_returned # {}
    /\ \E t, u \in Threads :
          /\ k_pc[t] = "written"
          /\ Len(k_buf[t]) = 1
          /\ k_pc[u] = "dumped"
          /\ k_lock = Some(t)

(***************************************************************************)
(* Store equivalence claims                                                *)
(***************************************************************************)
\* both stores raised the same, or returned the same
SameResult(call) ==
    /\ call.mem.raised = call.sql.raised
    /\ call.mem.raised = "" => call.mem.value = call.sql.value

\* C32: for any sequence of append calls (an event_id appended twice and an
\* event naming one artifact twice included) and any iter_events filters
\* (an empty event-type set included), InMemoryLedger gives the same
\* results as the SQLite Ledger.
C32_StoresAgree == SameResult(n_call)

\* no event_id was appended twice and no event names an artifact twice
PlainAppends ==
    /\ \A i, j \in 1..Len(n_mem.events) :
           n_mem.events[i].event_id = n_mem.events[j].event_id => i = j
    /\ \A i \in 1..Len(n_mem.events) :
           \A k, l \in DOMAIN n_mem.events[i].artifact_refs :
               n_mem.events[i].artifact_refs[k]
                   = n_mem.events[i].artifact_refs[l] => k = l

\* what does hold: after such appends the stores agree on every call
\* except iter_events with an empty event-type set
PlainStoresAgree ==
    (PlainAppends
        /\ ~(n_call.op = "iter_events" /\ n_call.args[3] = Some({}))) =>
        SameResult(n_call)

\* the three differences, one by one
DuplicateIdDiffers ==
    (n_call.op = "append" /\ ~SameResult(n_call)) =>
        /\ n_call.sql.raised = "IntegrityError"
        /\ n_call.mem.raised = ""

(***************************************************************************)
(* Emitter claims                                                          *)
(***************************************************************************)
\* C36: every event the system's own emitters build (CONFIDENCE_UPDATED,
\* ARTIFACT_SEEN, ACCESS_LIMITATION_NOTED) satisfies the validator's
\* schema for its type: validate_strict returns valid, and appending it
\* through a strict EventWriter never raises.
C36_EmittedEventsAreValid ==
    m_event # None =>
        /\ ValidateStrict(m_event[1])
        /\ m_strict => m_result = Some("ok")

\* what does hold: the envelope and the actor of every emitted event are
\* good, the errors are required payload fields that are missing, and a
\* writer that is not strict takes the event
EmittedEnvelopeIsValid ==
    m_event # None =>
        /\ ValidateEnvelope(m_event[1]) = {}
        /\ Validate(m_event[1]) \subseteq
               { <<"payload", "artifact_id">>, <<"payload", "locator">>,
                 <<"payload", "limitation_type">> }
        /\ ~m_strict => m_result = Some("ok")

\* every emitted event is rejected by a strict writer
StrictWriterRejectsEmitted ==
    (m_event # None /\ m_strict) => m_result = Some("ValueError")

(***************************************************************************)
(* Artifact state and snapshot claims                                      *)
(***************************************************************************)
\* the positions of the CONFIDENCE_UPDATED events of the artifact
UpdatesOf(events, aid) ==
    { i \in 1..Len(events) :
        /\ TypeOf(events[i]) = "CONFIDENCE_UPDATED"
        /\ EventArtifactId(events[i]) = Some(aid) }

\* the new confidence of the last CONFIDENCE_UPDATED event of the artifact
LastUpdate(events, aid) ==
    IF UpdatesOf(events, aid) = {} THEN JNone
    ELSE LET last == CHOOSE i \in UpdatesOf(events, aid) :
                         \A k \in UpdatesOf(events, aid) : k <= i
         IN  JGet(PayloadOf(events[last]), "new_confidence")

\* C37: in project_artifacts an artifact's confidence changes only through
\* CONFIDENCE_UPDATED events: after any event sequence it equals the new
\* confidence of the last CONFIDENCE_UPDATED event for that artifact, and
\* later observation, fingerprint or extraction events leave it unchanged.
C37_ConfidenceOnlyByUpdate ==
    a_state # None =>
        \A aid \in DOMAIN a_state[1] :
            a_state[1][aid]["confidence"] = LastUpdate(a_events, aid)

\* an observation event that carries a confidence in its envelope
ScoredObservation(event) ==
    /\ TypeOf(event) \in {"ARTIFACT_SEEN", "ARTIFACT_OBSERVED"}
    /\ "confidence" \in DOMAIN event

\* what does hold: fingerprint and extraction events, and observations
\* without a confidence of their own, leave the confidence alone
UnscoredEventsKeepConfidence ==
    (a_state # None
        /\ \A i \in 1..Len(a_events) : ~ScoredObservation(a_events[i])) =>
        \A aid \in DOMAIN a_state[1] :
            a_state[1][aid]["confidence"] = LastUpdate(a_events, aid)

\* C39: for the artifact state A that project_artifacts produces on any
\* event sequence, write_snapshot(path, A) returns the number of artifacts
\* in A and a following read_snapshot(path) returns a mapping equal to A.
C39_SnapshotEqualsProjection ==
    /\ a_count # None => a_count[1] = Cardinality(DOMAIN a_state[1])
    /\ a_read # None =>
          a_read[1] = [raised |-> "", artifacts |-> a_state[1]]

\* two artifacts, one with a score, a fingerprint and an extraction, one
\* with neither, were written and read back
C39_Witness ==
    /\ a_read # None
    /\ a_count = Some(2)
    /\ DOMAIN a_read[1].artifacts = {"a1", "a2"}
    /\ a_read[1].artifacts["a1"]["extraction"] # JNone
    /\ a_read[1].artifacts["a1"]["confidence"] = JFloat(30)
    /\ a_read[1].artifacts["a2"]["confidence"] = JNone

(***************************************************************************)
(* Artifact snapshot claims                                                *)
(***************************************************************************)

\* C38: in every state of ArtifactProjector, for events applied with
\* timestamps in any order, each artifact snapshot has first_seen <=
\* last_seen, its first_seen never changes once the snapshot exists, and
\* its observation_count, change_count and error_count never decrease.
FirstSeenBeforeLastSeen ==
    \A aid \in DOMAIN live.artifacts :
        live.artifacts[aid].first_seen <= live.artifacts[aid].last_seen

SnapshotsOnlyGrow ==
    \A aid \in DOMAIN live.artifacts :
        /\ aid \in DOMAIN live'.artifacts
        /\ live'.artifacts[aid].first_seen = live.artifacts[aid].first_seen
        /\ live'.artifacts[aid].observation_count >=
               live.artifacts[aid].observation_count
        /\ live'.artifacts[aid].change_count >= live.artifacts[aid].change_count
        /\ live'.artifacts[aid].error_count >= live.artifacts[aid].error_count

C38_SnapshotTimesAndCounters ==
    [](FirstSeenBeforeLastSeen) /\ [][SnapshotsOnlyGrow]_vars

\* what apply() does keep: first_seen and the three counters
FirstSeenAndCountersKept == [][SnapshotsOnlyGrow]_vars

\* an observation, a change or an extraction stamped earlier than the event
\* that created the snapshot was applied
EarlierEventApplied ==
    \E aid \in DOMAIN live.artifacts :
        /\ live.artifacts[aid].last_seen < live.artifacts[aid].first_seen
        /\ live.artifacts[aid].observation_count > 0

(***************************************************************************)
(* Remote access claims                                                    *)
(***************************************************************************)

\* calls_made never exceeds max_remote_calls
CallsWithinLimit == r_policy.calls_made <= r_policy.max_remote_calls

\* in every call of an eye, each denial of can_access came with no fetch and
\* no recorded call, and with one REMOTE_LOOKUP_DECLINED event appended
DenialsAreDeclined ==
    \A i \in DOMAIN r_call :
        /\ r_call[i].fetched <= r_call[i].allowed
        /\ r_call[i].recorded = r_call[i].allowed
        /\ r_call[i].declined = r_call[i].denials

\* C40: under any sequence of WebEye.observe, RemoteRepoEye.observe and
\* observe_repo calls sharing one RemotePolicy, calls_made never exceeds
\* max_remote_calls, and whenever can_access denies (access disabled, call
\* limit reached, domain not allow-listed) no fetch is made, calls_made is
\* unchanged and exactly one REMOTE_LOOKUP_DECLINED event is appended for
\* that call.
C40_DeniedCallsAreDeclined == CallsWithinLimit /\ DenialsAreDeclined

\* what holds of every call: the limit, and no fetch and no recorded call
\* for a denial
DenialsFetchNothing ==
    /\ CallsWithinLimit
    /\ \A i \in DOMAIN r_call :
          /\ r_call[i].fetched <= r_call[i].allowed
          /\ r_call[i].recorded = r_call[i].allowed

\* with a writer that is not strict every denial is declined in the ledger
PlainWriterDeclines == ~r_strict => DenialsAreDeclined

\* with a strict writer a denial leaves observe as a ValueError and nothing
\* is appended for it
StrictWriterDropsDeclined ==
    r_strict =>
        \A i \in DOMAIN r_call :
            r_call[i].denials > 0 =>
                r_call[i].raised = "ValueError" /\ r_call[i].declined = 0

\* a call was denied by the default policy and written through a plain writer
DeclinedByDefault ==
    /\ r_policy = DefaultRemotePolicy
    /\ ~r_strict
    /\ \E i \in DOMAIN r_call :
          r_call[i].op = "RemoteRepoEye.observe_repo" /\ r_call[i].denials = 11

=============================================================================
